---- MODULE Spec2Model ----
(***************************************************************************)
(* Verification model of the Donjons & Chatons dice engine:                *)
(*   - DCRoll (module/documents/roll.js): construction, asynchronous and   *)
(*     synchronous evaluation, alter, editRoll, render / toMessage and the *)
(*     toJSON / fromData round trip;                                       *)
(*   - the check callback of RollDCMacro (module/dc.mjs) and of the actor  *)
(*     sheet (module/sheets/actor-sheet.mjs);                              *)
(*   - DCRoll.replaceFormulaData (module/documents/roll.js);               *)
(*   - the three DCRelance reroll handlers (module/sheets/item-sheet.mjs   *)
(*     and module/sheets/relance-sheet.mjs).                               *)
(* Each subsystem has its own specification over the shared variables.     *)
(***************************************************************************)
EXTENDS Integers, Sequences, FiniteSets, TLC

VARIABLES
    \* ---- DCRoll (roll.js) ----
    terms,        \* this.terms: the term list of the Roll
    _dice,        \* this._dice: dice collected from intermediate terms
    _evaluated,   \* this._evaluated
    _total,       \* this._total
    pc,           \* position of the constructor and of the asynchronous _evaluate:
                  \* new, failed, idle, step1, step3, returned, threw
    lastError,    \* the error the last operation surfaced to its caller
    shown,        \* the total last read by render / toMessage for its output
    waiting,      \* a render / toMessage is suspended at "await this.evaluate"
    edits,        \* number of editRoll calls made on the Roll
    _formula,     \* the formula given to the constructor, then this._formula
    resolved,     \* the local term list "intermediate" of step 1 of _evaluate
    generated,    \* log: the dice groups generated so far, in order, by operation
    \* ---- RollDCMacro dialog callback (dc.mjs, actor-sheet.mjs) ----
    check,        \* the state of one check: mode, difficulty, roll, message, dialog
    \* ---- DCRelance (item-sheet.mjs, relance-sheet.mjs) ----
    impl,         \* which DCRelance implementation the dialog is an instance of
    object,       \* this.object of the dialog: value, selected, result
    flags,        \* the outcome: results (success count) and dices (dice list)
    message,      \* the original chat message: exists, deletion requested
    handler,      \* per invocation of the relance click handler: position and locals
    created,      \* the replacement chat messages created so far
    \* ---- DCRoll.replaceFormulaData (roll.js) ----
    substitution, \* one call: formula, data, the option missing, and the result
    \* ---- DCRoll.clone / reroll (roll.js) ----
    copy          \* the Roll the last clone() or reroll() returned, or its error

rollVars    == <<terms, _dice, _evaluated, _total, pc, lastError, shown, waiting, edits,
                 _formula, resolved, generated>>
checkVars   == <<check>>
relanceVars == <<impl, object, flags, message, handler, created>>
replaceVars == <<substitution>>
cloneVars   == <<copy>>
vars        == <<rollVars, checkVars, relanceVars, replaceVars, cloneVars>>

(***************************************************************************)
(* Bounds of the model.                                                    *)
(***************************************************************************)
MaxDice       == 2    \* dice in the dice groups of the engine formulas
MaxEdits      == 1    \* editRoll calls on one Roll
MaxLog        == 2    \* dice groups in the log when a Roll is still reloaded
MaxNesting    == 3    \* Rolls inside Rolls: brackets and arguments within brackets
MaxCount      == 4    \* dice of a dice group a parsed formula makes
MaxDifficulty == 6    \* largest difficulty (qualite value) of a check
RelanceDice   == 2    \* dice of the outcome the relance dialog is opened on

Faces == 6            \* the game rolls six-sided dice ("3D6", "1D6")

(***************************************************************************)
(* JavaScript numbers as far as the engine produces them.                  *)
(***************************************************************************)
Num(n)      == [k |-> "number", v |-> n]
Undefined   == [k |-> "undefined", v |-> 0]
NaN         == [k |-> "NaN", v |-> 0]
Infinity(s) == [k |-> "Infinity", v |-> s]     \* s = 1 or -1

IsFinite(x) == x.k = "number"

Sign(n) == IF n > 0 THEN 1 ELSE IF n < 0 THEN 0 - 1 ELSE 0
Abs(n)  == IF n < 0 THEN 0 - n ELSE n

\* Number.isNumeric of the host: false for undefined and NaN, true for every
\* other number, Infinity included (+n === +n).
isNumeric(x) == x.k \in {"number", "Infinity"}

JsNeg(a) ==
    CASE a.k = "number"   -> Num(0 - a.v)
      [] a.k = "Infinity" -> Infinity(0 - a.v)
      [] OTHER            -> NaN

JsAdd(a, b) ==
    CASE a.k \in {"NaN", "undefined"} \/ b.k \in {"NaN", "undefined"} -> NaN
      [] a.k = "number" /\ b.k = "number" -> Num(a.v + b.v)
      [] a.k = "Infinity" /\ b.k = "Infinity" -> IF a.v = b.v THEN a ELSE NaN
      [] a.k = "Infinity" -> a
      [] OTHER -> b

JsMul(a, b) ==
    CASE a.k \in {"NaN", "undefined"} \/ b.k \in {"NaN", "undefined"} -> NaN
      [] a.k = "number" /\ b.k = "number" -> Num(a.v * b.v)
      [] Sign(a.v) * Sign(b.v) = 0 -> NaN
      [] OTHER -> Infinity(Sign(a.v) * Sign(b.v))

\* Division; the formulas of the model divide exactly or by zero.
JsDiv(a, b) ==
    CASE a.k \in {"NaN", "undefined"} \/ b.k \in {"NaN", "undefined"} -> NaN
      [] a.k = "number" /\ b.k = "number" /\ b.v # 0 ->
            Num(Sign(a.v) * Sign(b.v) * (Abs(a.v) \div Abs(b.v)))
      [] a.k = "number" /\ b.k = "number" ->
            IF a.v = 0 THEN NaN ELSE Infinity(Sign(a.v))
      [] a.k = "Infinity" /\ b.k = "Infinity" -> NaN
      [] a.k = "Infinity" -> Infinity(a.v * (IF b.v < 0 THEN 0 - 1 ELSE 1))
      [] OTHER -> Num(0)

JsBin(op, a, b) ==
    CASE op = "+" -> JsAdd(a, b)
      [] op = "-" -> JsAdd(a, JsNeg(b))
      [] op = "*" -> JsMul(a, b)
      [] OTHER    -> JsDiv(a, b)

\* Math.round(total * 100) / 100 of render, on the integer totals of the model.
round2(x) == IF x.k = "undefined" THEN NaN ELSE x

(***************************************************************************)
(* Terms.  Every term is a record of one shape; class names the variant.   *)
(* A die result is {result, active, success}; success is "undefined" when  *)
(* no count-successes modifier is in effect.                               *)
(***************************************************************************)
NumericTerm(n) ==
    [class |-> "NumericTerm", number |-> n, faces |-> 0, operator |-> "",
     modifiers |-> <<>>, results |-> <<>>, _evaluated |-> FALSE]

OperatorTerm(o) ==
    [class |-> "OperatorTerm", number |-> 0, faces |-> 0, operator |-> o,
     modifiers |-> <<>>, results |-> <<>>, _evaluated |-> FALSE]

\* A dice group "<n>D<f>" with its modifiers, here none or one "cs<=T".
Die(n, f, mods) ==
    [class |-> "Die", number |-> n, faces |-> f, operator |-> "",
     modifiers |-> mods, results |-> <<>>, _evaluated |-> FALSE]

cs(T) == <<[code |-> "cs<=", target |-> T]>>

isDie(t)      == t.class = "Die"
isOperator(t) == t.class = "OperatorTerm"

\* One die result after the modifiers of its group were applied: with cs<=T
\* the result is a success exactly when its face value is <= T.
DieResult(v, mods) ==
    [result  |-> v,
     active  |-> TRUE,
     success |-> IF mods = <<>> THEN "undefined"
                 ELSE IF v <= mods[1].target THEN "true" ELSE "false"]

\* Die.evaluate: one result per die of the group, each a face in 1..faces
\* (vs gives the faces that come up), then the modifiers in written order.
rollDie(t, vs) ==
    [t EXCEPT !.results = [i \in 1..t.number |-> DieResult(vs[i], t.modifiers)],
              !._evaluated = TRUE]

\* The faces a dice group can come up with: every combination when rolled at
\* random, all ones under minimize, all highest faces under maximize.
Outcomes(t, mode) ==
    CASE ~isDie(t)         -> {<<>>}
      [] mode = "minimize" -> {[i \in 1..t.number |-> 1]}
      [] mode = "maximize" -> {[i \in 1..t.number |-> t.faces]}
      [] OTHER             -> [1..t.number -> 1..t.faces]

\* RollTerm.evaluate for any term; numeric and operator terms only get
\* their _evaluated flag.
evaluateTerm(t, vs) ==
    IF isDie(t) THEN rollDie(t, vs) ELSE [t EXCEPT !._evaluated = TRUE]

RECURSIVE SumResults(_, _)
SumResults(rs, i) ==
    IF i > Len(rs) THEN 0
    ELSE (IF ~rs[i].active THEN 0
          ELSE IF rs[i].success = "undefined" THEN rs[i].result
          ELSE IF rs[i].success = "true" THEN 1 ELSE 0)
         + SumResults(rs, i + 1)

\* DiceTerm.total: undefined until evaluated, then the sum over the active
\* results of their success count (when classified) or their face value.
dieTotal(t) == IF ~t._evaluated THEN Undefined ELSE Num(SumResults(t.results, 1))

\* term.total of an operand term.
termTotal(t) == IF isDie(t) \/ t.class = "PoolTerm" THEN dieTotal(t) ELSE Num(t.number)

(***************************************************************************)
(* Formulas.  A formula string is a sequence of lexemes: the pieces the    *)
(* regular expressions of the splitters never cut (a number, a dice        *)
(* expression, an operator, a bracket with the function name in front of   *)
(* it, a comma).  Concatenating strings is concatenating sequences.        *)
(***************************************************************************)
FNum(n)          == [kind |-> "numeric", number |-> n, faces |-> 0, modifiers |-> <<>>, operator |-> ""]
FDice(n, f, m)   == [kind |-> "dice", number |-> n, faces |-> f, modifiers |-> m, operator |-> ""]
FOp(o)           == [kind |-> "operator", number |-> 0, faces |-> 0, modifiers |-> <<>>, operator |-> o]
\* "(" with the function name written in front of it ("" or "max"), ")",
\* "{", "}", "," and the text "undefined" a missing total is printed as.
FOpen(fn)        == [kind |-> "open", number |-> 0, faces |-> 0, modifiers |-> <<>>, operator |-> fn]
FClose           == [kind |-> "close", number |-> 0, faces |-> 0, modifiers |-> <<>>, operator |-> ")"]
FPoolOpen        == [kind |-> "poolOpen", number |-> 0, faces |-> 0, modifiers |-> <<>>, operator |-> "{"]
FPoolClose       == [kind |-> "poolClose", number |-> 0, faces |-> 0, modifiers |-> <<>>, operator |-> "}"]
FComma           == [kind |-> "comma", number |-> 0, faces |-> 0, modifiers |-> <<>>, operator |-> ","]
FUndefined       == [kind |-> "text", number |-> 0, faces |-> 0, modifiers |-> <<>>, operator |-> "undefined"]
\* A blank, and a data reference "@name".
FBlank           == [kind |-> "blank", number |-> 0, faces |-> 0, modifiers |-> <<>>, operator |-> " "]
FRef(name)       == [kind |-> "ref", number |-> 0, faces |-> 0, modifiers |-> <<>>, operator |-> name]

\* A term the model does not follow (see ModelledTerm).
Unmodelled == [class |-> "Unmodelled", _evaluated |-> FALSE]

\* A string that is not classified yet, as the splitters hand it on.
Str(s) == [class |-> "string", term |-> s, _evaluated |-> FALSE]

\* The terms that hold a string: an unresolved fragment, a parenthetical
\* expression, a math call with its arguments, a pool with its members.
StringTerm(s)        == [class |-> "StringTerm", term |-> s, _evaluated |-> FALSE]
ParentheticalTerm(s) == [class |-> "ParentheticalTerm", term |-> s, _evaluated |-> FALSE]
MathTerm(fn, args)   == [class |-> "MathTerm", fn |-> fn, terms |-> args, _evaluated |-> FALSE]
PoolTerm(args)       == [class |-> "PoolTerm", terms |-> args, results |-> <<>>,
                         dice |-> <<>>, _evaluated |-> FALSE]

isString(t)       == t.class = "StringTerm"
isPool(t)         == t.class = "PoolTerm"
\* term.isIntermediate: parenthetical terms and math calls.
isIntermediate(t) == t.class \in {"ParentheticalTerm", "MathTerm"}

\* The digits of a followed by the digits of b, as a number.
ConcatDigits(a, b) == a * (IF b < 10 THEN 10 ELSE IF b < 100 THEN 100 ELSE 1000) + b

RECURSIVE DigitsOf(_, _, _)
DigitsOf(s, i, acc) ==
    IF i > Len(s) THEN acc ELSE DigitsOf(s, i + 1, ConcatDigits(acc, s[i].number))

AllNumeric(s) == \A i \in 1..Len(s) : s[i].kind = "numeric"

\* NumericTerm.matchTerm: the string is digits only.
matchNumeric(s) == Len(s) > 0 /\ AllNumeric(s)

\* The position of the dice expression in a string that DiceTerm.REGEXP
\* matches: digits, the dice expression, then any text without bracket and
\* operator, which the pattern takes for the faces and the modifiers.
DicePositions(s) ==
    {d \in 1..Len(s) :
        /\ s[d].kind = "dice"
        /\ AllNumeric(SubSeq(s, 1, d - 1))
        /\ \A j \in (d + 1)..Len(s) : s[j].kind \in {"numeric", "comma", "text", "dice"}}

\* Text after the faces that evaluation ignores: digits after a comma,
\* commas and "undefined" name no modifier.  A further dice expression
\* there would be read as modifiers ("d2" drops the two lowest dice).
IgnoredModifiers(s, d) == \A j \in (d + 1)..Len(s) : s[j].kind # "dice"

\* The digits that directly follow position d.
TrailingDigits(s, d) ==
    LET stop == {j \in (d + 1)..(Len(s) + 1) : j = Len(s) + 1 \/ s[j].kind # "numeric"}
        e    == CHOOSE j \in stop : \A k \in stop : j <= k
    IN  SubSeq(s, d + 1, e - 1)

\* The dice expression a matching string denotes: leading digits run into
\* the number of dice, trailing digits into the faces (or into the target
\* of the last modifier); number 0 stands for an omitted number.
diceOf(s, d) ==
    LET lead  == SubSeq(s, 1, d - 1)
        trail == TrailingDigits(s, d)
        n     == IF lead = <<>> THEN s[d].number
                 ELSE IF s[d].number = 0 THEN DigitsOf(lead, 1, 0)
                 ELSE DigitsOf(Append(lead, FNum(s[d].number)), 1, 0)
        f     == IF s[d].modifiers = <<>> /\ trail # <<>>
                 THEN DigitsOf(<<FNum(s[d].faces)>> \o trail, 1, 0) ELSE s[d].faces
        m     == IF s[d].modifiers # <<>> /\ trail # <<>>
                 THEN <<[s[d].modifiers[1] EXCEPT
                           !.target = DigitsOf(<<FNum(s[d].modifiers[1].target)>> \o trail, 1, 0)]>>
                 ELSE s[d].modifiers
    IN  [number |-> n, faces |-> f, modifiers |-> m]

\* DiceTerm.matchTerm and fromMatch on a dice expression d: without number
\* of dice it matches in the terminal pass only, which takes one die; next
\* to an intermediate term it stays a StringTerm in the intermediate pass.
classifyDice(s, d, ignored, intermediate, nextToIntermediate) ==
    IF d.number = 0 /\ intermediate THEN StringTerm(s)
    ELSE IF intermediate /\ nextToIntermediate THEN StringTerm(s)
    ELSE IF ~ignored THEN Unmodelled
    ELSE Die(IF d.number = 0 THEN 1 ELSE d.number, d.faces, d.modifiers)

classifyDiceAt(s, p, intermediate, nextToIntermediate) ==
    classifyDice(s, diceOf(s, p), IgnoredModifiers(s, p), intermediate, nextToIntermediate)

\* _classifyStringTerm on a split piece: an operator or intermediate term is
\* classified already; digits are a NumericTerm; then the dice pattern is
\* tried; anything else stays a StringTerm.
_classifyStringTerm(term, intermediate, priorIntermediate, nextIntermediate) ==
    IF term.class # "string" THEN term
    ELSE IF matchNumeric(term.term) THEN NumericTerm(DigitsOf(term.term, 1, 0))
    ELSE IF DicePositions(term.term) = {} THEN StringTerm(term.term)
    ELSE classifyDiceAt(term.term, CHOOSE p \in DicePositions(term.term) : TRUE,
                        intermediate, priorIntermediate \/ nextIntermediate)

\* The text simplifyTerms joins to a StringTerm: the total of the neighbour.
totalText(t) ==
    CASE isString(t)              -> t.term
      [] t.class = "NumericTerm"  -> <<FNum(t.number)>>
      [] OTHER                    -> <<FUndefined>>

\* The first pass that joins nothing.
combineString_NoMerge(acc, term) == Append(acc, term)

\* simplifyTerms, first pass, for one term after the terms acc: a
\* non-operator term is joined to a StringTerm before it, a StringTerm to a
\* non-operator term before it.
combineString(acc, term) ==
    LET n == Len(acc)
    IN  IF n > 0 /\ ~isOperator(term) /\ isString(acc[n])
        THEN [acc EXCEPT ![n] = StringTerm(acc[n].term \o totalText(term))]
        ELSE IF n > 0 /\ ~isOperator(acc[n]) /\ isString(term)
        THEN [acc EXCEPT ![n] = StringTerm(totalText(acc[n]) \o term.term)]
        ELSE Append(acc, term)

RECURSIVE combineStrings(_, _, _)
combineStrings(ts, i, acc) ==
    IF i > Len(ts) THEN acc ELSE combineStrings(ts, i + 1, combineString(acc, ts[i]))

\* simplifyTerms, second pass: every StringTerm goes through the terminal
\* classification.
classifyStrings(c) ==
    [i \in 1..Len(c) |->
        IF isString(c[i]) THEN _classifyStringTerm(Str(c[i].term), FALSE, FALSE, FALSE)
        ELSE c[i]]

\* simplifyTerms, the end: one leading operator other than "-" and one
\* trailing operator are eliminated.
shiftOperator(s) ==
    IF Len(s) > 0 /\ isOperator(s[1]) /\ s[1].operator # "-" THEN Tail(s) ELSE s

popOperator(a) ==
    IF Len(a) > 0 /\ isOperator(a[Len(a)]) THEN SubSeq(a, 1, Len(a) - 1) ELSE a

simplifyTerms(ts) == popOperator(shiftOperator(classifyStrings(combineStrings(ts, 1, <<>>))))

\* terms.join(",")
RECURSIVE JoinComma(_, _)
JoinComma(args, i) ==
    IF i > Len(args) THEN <<>>
    ELSE IF i = Len(args) THEN args[i]
    ELSE args[i] \o <<FComma>> \o JoinComma(args, i + 1)

\* term.formula of a term.
termFormula(t) ==
    CASE t.class = "NumericTerm"       -> <<FNum(t.number)>>
      [] t.class = "OperatorTerm"      -> <<FOp(t.operator)>>
      [] t.class = "Die"               -> <<FDice(t.number, t.faces, t.modifiers)>>
      [] t.class = "StringTerm"        -> t.term
      [] t.class = "ParentheticalTerm" -> <<FOpen("")>> \o t.term \o <<FClose>>
      [] t.class = "MathTerm"          -> <<FOpen(t.fn)>> \o JoinComma(t.terms, 1) \o <<FClose>>
      [] t.class = "PoolTerm"          -> <<FPoolOpen>> \o JoinComma(t.terms, 1) \o <<FPoolClose>>
      [] OTHER                         -> <<>>

(***************************************************************************)
(* safeEval: the JavaScript value of the term totals joined by blanks.     *)
(***************************************************************************)
Operand(x) == [op |-> "", val |-> x]
Binary(o)  == [op |-> o, val |-> Undefined]

\* Reads the expression left to right, one term at a time.  Where an
\* operand is expected a "+" or "-" is a unary sign; "*" or "/" there or two
\* operands in a row are a syntax error.
Token(st, t) ==
    IF ~st.ok THEN st
    ELSE IF isOperator(t)
         THEN IF st.expectOperand
              THEN IF t.operator \in {"+", "-"}
                   THEN [st EXCEPT !.negate = IF t.operator = "-" THEN ~st.negate ELSE st.negate]
                   ELSE [st EXCEPT !.ok = FALSE]
              ELSE [st EXCEPT !.expectOperand = TRUE, !.negate = FALSE,
                              !.items = Append(st.items, Binary(t.operator))]
         ELSE IF ~st.expectOperand
              THEN [st EXCEPT !.ok = FALSE]
              ELSE [st EXCEPT !.expectOperand = FALSE, !.negate = FALSE,
                              !.items = Append(st.items,
                                               Operand(IF st.negate THEN JsNeg(termTotal(t))
                                                       ELSE termTotal(t)))]

RECURSIVE Tokens(_, _, _)
Tokens(ts, i, st) == IF i > Len(ts) THEN st ELSE Tokens(ts, i + 1, Token(st, ts[i]))

\* "*" and "/" first, left to right: an operand behind "*" or "/" is
\* combined with the operand in front of it.
MulItem(acc, item) ==
    LET n == Len(acc)
    IN  IF item.op = "" /\ n > 1 /\ acc[n].op \in {"*", "/"}
        THEN Append(SubSeq(acc, 1, n - 2), Operand(JsBin(acc[n].op, acc[n - 1].val, item.val)))
        ELSE Append(acc, item)

RECURSIVE MulPass(_, _, _)
MulPass(items, i, acc) ==
    IF i > Len(items) THEN acc ELSE MulPass(items, i + 1, MulItem(acc, items[i]))

\* then "+" and "-", left to right.
RECURSIVE AddPass(_, _, _)
AddPass(items, i, acc) ==
    IF i > Len(items) THEN acc
    ELSE AddPass(items, i + 2, JsBin(items[i].op, acc, items[i + 1].val))

SumOf(m) == AddPass(m, 2, m[1].val)

\* An expression that ends where an operand is expected is a syntax error
\* too; the error is caught and the result is undefined.
ValueOf(tk) ==
    IF ~tk.ok \/ tk.expectOperand THEN Undefined ELSE SumOf(MulPass(tk.items, 1, <<>>))

evalExpression(ts) ==
    ValueOf(Tokens(ts, 1, [ok |-> TRUE, expectOperand |-> TRUE, negate |-> FALSE, items |-> <<>>]))

\* safeEval throws when the result is not numeric.
NumericOrThrow(result) == [threw |-> ~isNumeric(result), value |-> result]

safeEval(ts) == NumericOrThrow(evalExpression(ts))

\* _evaluateTotal without its test: whatever safeEval gave is the total.
TotalOrThrow_Unchecked(total) == [threw |-> FALSE, value |-> total.value]

\* _evaluateTotal: the total of the term list, or the non-numeric error.
TotalOrThrow(total) ==
    IF total.threw \/ ~isNumeric(total.value)
    THEN [threw |-> TRUE, value |-> Undefined]
    ELSE [threw |-> FALSE, value |-> total.value]

_evaluateTotal(ts) == TotalOrThrow(safeEval(ts))

(***************************************************************************)
(* Parsing and the evaluation of inner Rolls.  A math call or a pool asks  *)
(* validate about its arguments while the formula is being split, and      *)
(* validate constructs a Roll and evaluates it; a parenthetical term, a    *)
(* math call or a pool evaluates the Rolls of its strings.  The operators  *)
(* below are therefore set valued: one element per way the dice can fall.  *)
(* rolled lists, in order, the dice groups that were generated.            *)
(***************************************************************************)
\* What the model does not follow: a dice group beyond MaxCount dice or
\* Faces faces, a dice expression followed by modifier letters, a math call
\* without finite value.  Formulas that lead there are left out of the
\* inputs (see Formulas).
ModelledTerm(t) ==
    /\ t.class # "Unmodelled"
    /\ isDie(t) => (t.number \in 1..MaxCount /\ t.faces \in 1..Faces)

ModelledTerms(ts) == \A i \in 1..Len(ts) : ModelledTerm(ts[i])

\* The sequences of a sequence, joined.
RECURSIVE Flatten(_, _)
Flatten(ss, i) == IF i > Len(ss) THEN <<>> ELSE ss[i] \o Flatten(ss, i + 1)

\* expression.split(","): the pieces between the commas.
Commas(s) == {i \in 1..Len(s) : s[i].kind = "comma"}

SplitComma(s) ==
    LET cut(k) == IF k = 0 THEN 0
                  ELSE IF k > Cardinality(Commas(s)) THEN Len(s) + 1
                  ELSE CHOOSE i \in Commas(s) : Cardinality({j \in Commas(s) : j <= i}) = k
    IN  [k \in 1..(Cardinality(Commas(s)) + 1) |-> SubSeq(s, cut(k - 1) + 1, cut(k) - 1)]

\* The end of _splitGroup: adjacent strings are re-combined.
RECURSIVE Recombine(_, _, _)
Recombine(ts, i, acc) ==
    IF i > Len(ts) THEN acc
    ELSE Recombine(ts, i + 1,
            IF ts[i].class = "string" /\ Len(acc) > 0 /\ acc[Len(acc)].class = "string"
            THEN [acc EXCEPT ![Len(acc)] = Str(acc[Len(acc)].term \o ts[i].term)]
            ELSE Append(acc, ts[i]))

\* t.trim() on a piece of a formula.
RECURSIVE trimBlanksStart(_)
trimBlanksStart(s) == IF s # <<>> /\ Head(s).kind = "blank" THEN trimBlanksStart(Tail(s)) ELSE s

RECURSIVE trimBlanksEnd(_)
trimBlanksEnd(s) ==
    IF s # <<>> /\ s[Len(s)].kind = "blank" THEN trimBlanksEnd(SubSeq(s, 1, Len(s) - 1)) ELSE s

trimBlanks(s) == trimBlanksEnd(trimBlanksStart(s))

\* _splitOperators: every operator symbol becomes an OperatorTerm of its
\* own, the text between two operator symbols stays a string; the pieces
\* are trimmed, and a piece of blanks only is dropped.
Operators(s) == {i \in 1..Len(s) : s[i].kind = "operator"}

_splitOperators(s) ==
    LET part(i) == IF i \in Operators(s) THEN <<OperatorTerm(s[i].operator)>>
                   ELSE IF i > 1 /\ (i - 1) \notin Operators(s) THEN <<>>
                   ELSE LET stop == {j \in i..(Len(s) + 1) : j = Len(s) + 1 \/ j \in Operators(s)}
                            e    == CHOOSE j \in stop : \A k \in stop : j <= k
                            t    == trimBlanks(SubSeq(s, i, e - 1))
                        IN  IF t = <<>> THEN <<>> ELSE <<Str(t)>>
    IN  Flatten([i \in 1..Len(s) |-> part(i)], 1)

\* Step 4 of parse: flatMap of _splitOperators over the strings.
splitOperatorsOver(ts) ==
    Flatten([i \in 1..Len(ts) |->
                IF ts[i].class = "string" THEN _splitOperators(ts[i].term) ELSE <<ts[i]>>], 1)

\* Step 5 of parse: every piece is classified, with its neighbours.
classifyOver(ts) ==
    [i \in 1..Len(ts) |->
        _classifyStringTerm(ts[i], TRUE,
                            i > 1 /\ isIntermediate(ts[i - 1]),
                            i < Len(ts) /\ isIntermediate(ts[i + 1]))]

IsOpenOf(t, symbol)  == t.kind = (IF symbol = "(" THEN "open" ELSE "poolOpen")
IsCloseOf(t, symbol) == t.kind = (IF symbol = "(" THEN "close" ELSE "poolClose")

\* this.dice of a Roll: the inner dice, then the dice terms and the dice of
\* the pools in the order of the term list.
RECURSIVE termDice(_, _)
termDice(ts, i) ==
    IF i > Len(ts) THEN <<>>
    ELSE (IF isDie(ts[i]) THEN <<ts[i]>> ELSE IF isPool(ts[i]) THEN ts[i].dice ELSE <<>>)
         \o termDice(ts, i + 1)

dice(ts, inner) == inner \o termDice(ts, 1)

Failure(error, rolled, bad) ==
    [threw |-> TRUE, error |-> error, terms |-> <<>>, _dice |-> <<>>, total |-> Undefined,
     dice |-> <<>>, rolled |-> rolled, bad |-> bad]

\* validate(formula): a Roll is constructed from the formula and evaluated
\* synchronously; the formula is valid when neither throws.
validate(formula, Roll) ==
    {[valid |-> ~o.threw, rolled |-> o.rolled, bad |-> o.bad] : o \in Roll[formula]["random"]}

\* _splitMathArgs, one step of the reduce, for piece t after the arguments
\* of a: a blank piece is skipped, the first piece is an argument, a later
\* piece is an argument when the argument before it is valid and is joined
\* to it with a comma otherwise.
mathArg(a, piece, Roll) ==
    LET n == Len(a.args)
        t == trimBlanks(piece)
    IN  IF t = <<>> THEN {a}
        ELSE IF n = 0 THEN {[a EXCEPT !.args = <<t>>]}
        ELSE {[args   |-> IF priorValid.valid THEN Append(a.args, t)
                          ELSE [a.args EXCEPT ![n] = a.args[n] \o <<FComma>> \o t],
               rolled |-> a.rolled \o priorValid.rolled,
               bad    |-> a.bad \/ priorValid.bad] :
                 priorValid \in validate(a.args[n], Roll)}

RECURSIVE mathArgs(_, _, _, _)
mathArgs(pieces, k, a, Roll) ==
    IF k > Len(pieces) THEN {a}
    ELSE UNION {mathArgs(pieces, k + 1, b, Roll) : b \in mathArg(a, pieces[k], Roll)}

_splitMathArgs(expression, Roll) ==
    mathArgs(SplitComma(expression), 1, [args |-> <<>>, rolled |-> <<>>, bad |-> FALSE], Roll)

\* onClose of _splitParentheses and of _splitPools: the terms of a closed
\* group.  A function name of Math in front of the bracket makes a math
\* call of the arguments; other parentheses hold one expression.
onClose(symbol, open, expression, Roll) ==
    IF symbol = "(" /\ open.operator # "max"
    THEN {[terms |-> <<ParentheticalTerm(expression)>>, rolled |-> <<>>, bad |-> FALSE]}
    ELSE {[terms  |-> <<IF symbol = "(" THEN MathTerm(open.operator, a.args) ELSE PoolTerm(a.args)>>,
           rolled |-> a.rolled, bad |-> a.bad] : a \in _splitMathArgs(expression, Roll)}

\* The loop without the count of nested brackets: the first closing bracket
\* closes the group.
splitPart_FirstClose(g, t, symbol, Roll) ==
    IF IsOpenOf(t, symbol) /\ g.nOpen = 0
    THEN {[g EXCEPT !.nOpen = 1, !.open = t, !.group = <<>>]}
    ELSE IF g.nOpen > 0 /\ IsCloseOf(t, symbol)
    THEN {[g EXCEPT !.nOpen = 0, !.group = <<>>, !.terms = g.terms \o c.terms,
                    !.rolled = g.rolled \o c.rolled, !.bad = g.bad \/ c.bad] :
             c \in onClose(symbol, g.open, g.group, Roll)}
    ELSE IF g.nOpen > 0
    THEN {[g EXCEPT !.group = Append(g.group, t)]}
    ELSE {[g EXCEPT !.terms = Append(g.terms, Str(<<t>>))]}

\* The loop of _splitGroup, for part t in state g: nOpen counts the open
\* brackets, open and group hold the group being collected, terms the
\* terms split off so far.
splitPart(g, t, symbol, Roll) ==
    IF IsOpenOf(t, symbol) /\ g.nOpen = 0
    THEN {[g EXCEPT !.nOpen = 1, !.open = t, !.group = <<>>]}
    ELSE IF IsOpenOf(t, symbol)
    THEN {[g EXCEPT !.nOpen = g.nOpen + 1, !.group = Append(g.group, t)]}
    ELSE IF g.nOpen = 1 /\ IsCloseOf(t, symbol)
    THEN {[g EXCEPT !.nOpen = 0, !.group = <<>>, !.terms = g.terms \o c.terms,
                    !.rolled = g.rolled \o c.rolled, !.bad = g.bad \/ c.bad] :
             c \in onClose(symbol, g.open, g.group, Roll)}
    ELSE IF g.nOpen > 0 /\ IsCloseOf(t, symbol)
    THEN {[g EXCEPT !.nOpen = g.nOpen - 1, !.group = Append(g.group, t)]}
    ELSE IF g.nOpen > 0
    THEN {[g EXCEPT !.group = Append(g.group, t)]}
    ELSE {[g EXCEPT !.terms = Append(g.terms, Str(<<t>>))]}

RECURSIVE splitLoop(_, _, _, _, _)
splitLoop(formula, i, symbol, g, Roll) ==
    IF i > Len(formula) THEN {g}
    ELSE UNION {splitLoop(formula, i + 1, symbol, h, Roll) : h \in splitPart(g, formula[i], symbol, Roll)}

\* _splitGroup: a bracket still open at the end is the "Unbalanced group"
\* error; otherwise adjacent strings are re-combined.
_splitGroup(formula, symbol, Roll) ==
    {[threw  |-> g.nOpen # 0,
      terms  |-> IF g.nOpen # 0 THEN <<>> ELSE Recombine(g.terms, 1, <<>>),
      rolled |-> g.rolled,
      bad    |-> g.bad] :
        g \in splitLoop(formula, 1, symbol,
                        [nOpen |-> 0, open |-> FOpen(""), group |-> <<>>, terms |-> <<>>,
                         rolled |-> <<>>, bad |-> FALSE], Roll)}

_splitParentheses(formula, Roll) == _splitGroup(formula, "(", Roll)
_splitPools(formula, Roll)       == _splitGroup(formula, "{", Roll)

\* Step 3 of parse: flatMap of _splitPools over the strings, for term t
\* after the result b so far; an error ends it.
splitPoolsOf(b, t, Roll) ==
    IF b.threw THEN {b}
    ELSE IF t.class # "string" THEN {[b EXCEPT !.terms = Append(b.terms, t)]}
    ELSE {[threw  |-> g.threw,
           terms  |-> IF g.threw THEN <<>> ELSE b.terms \o g.terms,
           rolled |-> b.rolled \o g.rolled,
           bad    |-> b.bad \/ g.bad] : g \in _splitPools(t.term, Roll)}

RECURSIVE splitPoolsOver(_, _, _, _)
splitPoolsOver(ts, i, b, Roll) ==
    IF i > Len(ts) THEN {b}
    ELSE UNION {splitPoolsOver(ts, i + 1, c, Roll) : c \in splitPoolsOf(b, ts[i], Roll)}

\* parse: an empty formula has no terms; otherwise parentheses, pools and
\* operators are split off in this order and the pieces are classified.
parse(formula, Roll) ==
    IF formula = <<>>
    THEN {[threw |-> FALSE, terms |-> <<>>, rolled |-> <<>>, bad |-> FALSE]}
    ELSE UNION { IF a.threw THEN {a}
                 ELSE UNION { IF b.threw THEN {b}
                              ELSE {[b EXCEPT !.terms = classifyOver(splitOperatorsOver(b.terms))]} :
                                 b \in splitPoolsOver(a.terms, 1, [a EXCEPT !.terms = <<>>], Roll) } :
                    a \in _splitParentheses(formula, Roll) }

\* The Rolls of the strings of a math call or pool, created and evaluated in
\* order; r is the result so far, and the first Roll that throws ends it.
evaluateRoll(r, arg, mode, Roll) ==
    IF r.threw THEN {r}
    ELSE {IF o.threw \/ ~IsFinite(o.total)
          THEN [r EXCEPT !.threw = TRUE, !.error = o.error, !.rolled = r.rolled \o o.rolled,
                         !.bad = r.bad \/ o.bad \/ ~o.threw]
          ELSE [r EXCEPT !.totals = Append(r.totals, o.total.v), !.dice = r.dice \o o.dice,
                         !.rolled = r.rolled \o o.rolled, !.bad = r.bad \/ o.bad] :
             o \in Roll[arg][mode]}

RECURSIVE evaluateRolls(_, _, _, _, _)
evaluateRolls(args, k, r, mode, Roll) ==
    IF k > Len(args) THEN {r}
    ELSE UNION {evaluateRolls(args, k + 1, s, mode, Roll) : s \in evaluateRoll(r, args[k], mode, Roll)}

NoRolls ==
    [threw |-> FALSE, error |-> "none", totals |-> <<>>, dice |-> <<>>, rolled |-> <<>>, bad |-> FALSE]

RECURSIVE MaxOf(_, _)
MaxOf(xs, i) ==
    IF i = Len(xs) THEN xs[i]
    ELSE LET m == MaxOf(xs, i + 1) IN IF xs[i] > m THEN xs[i] ELSE m

\* term.evaluate({minimize, maximize, async: false}) of the host, per class
\* of term: the evaluated term, its total, its dice, or the error.
TermEvaluations(t, mode, Roll) ==
    LET Done(term, total, inner, rolled, bad) ==
            [threw |-> FALSE, error |-> "none", term |-> term, total |-> total,
             dice |-> inner, rolled |-> rolled, bad |-> bad]
        Thrown(error, rolled, bad) ==
            [threw |-> TRUE, error |-> error, term |-> t, total |-> 0,
             dice |-> <<>>, rolled |-> rolled, bad |-> bad]
    IN  CASE isDie(t) ->
               IF ~ModelledTerm(t) THEN {Thrown("Unmodelled", <<>>, TRUE)}
               ELSE {Done(evaluateTerm(t, vs), 0, <<>>, <<evaluateTerm(t, vs)>>, FALSE) : vs \in Outcomes(t, mode)}
          [] isString(t) -> {Thrown("Unresolved", <<>>, FALSE)}
          [] t.class = "Unmodelled" -> {Thrown("Unmodelled", <<>>, TRUE)}
          [] t.class = "ParentheticalTerm" ->
               {IF o.threw \/ ~IsFinite(o.total)
                THEN Thrown(o.error, o.rolled, o.bad \/ ~o.threw)
                ELSE Done([t EXCEPT !._evaluated = TRUE], o.total.v, o.dice, o.rolled, o.bad) :
                   o \in Roll[t.term][mode]}
          [] t.class = "MathTerm" ->
               {IF r.threw THEN Thrown(r.error, r.rolled, r.bad)
                ELSE IF r.totals = <<>> THEN Thrown("Unmodelled", r.rolled, TRUE)
                ELSE Done([t EXCEPT !._evaluated = TRUE], MaxOf(r.totals, 1), r.dice, r.rolled, r.bad) :
                   r \in evaluateRolls(t.terms, 1, NoRolls, mode, Roll)}
          [] isPool(t) ->
               {IF r.threw THEN Thrown(r.error, r.rolled, r.bad)
                ELSE Done([t EXCEPT !.results = [i \in 1..Len(r.totals) |-> DieResult(r.totals[i], <<>>)],
                                    !.dice = r.dice, !._evaluated = TRUE],
                          0, <<>>, r.rolled, r.bad) :
                   r \in evaluateRolls(t.terms, 1, NoRolls, mode, Roll)}
          [] OTHER -> {Done(evaluateTerm(t, <<>>), 0, <<>>, <<>>, FALSE)}

\* Step 1 of _evaluateSync, for term t after the result s so far: an
\* intermediate term is evaluated, its dice are added to the inner dice and
\* a NumericTerm with its total takes its place; an error ends the step.
resolveTerm(s, t, mode, Roll) ==
    IF s.threw THEN {s}
    ELSE IF ~isIntermediate(t) THEN {[s EXCEPT !.terms = Append(s.terms, t)]}
    ELSE {IF e.threw
          THEN [s EXCEPT !.threw = TRUE, !.error = e.error,
                         !.rolled = s.rolled \o e.rolled, !.bad = s.bad \/ e.bad]
          ELSE [s EXCEPT !.terms = Append(s.terms, NumericTerm(e.total)),
                         !._dice = s._dice \o e.dice,
                         !.rolled = s.rolled \o e.rolled, !.bad = s.bad \/ e.bad] :
             e \in TermEvaluations(t, mode, Roll)}

RECURSIVE resolveIntermediate(_, _, _, _, _)
resolveIntermediate(ts, i, s, mode, Roll) ==
    IF i > Len(ts) THEN {s}
    ELSE UNION {resolveIntermediate(ts, i + 1, r, mode, Roll) : r \in resolveTerm(s, ts[i], mode, Roll)}

\* Step 3 of _evaluateSync, for term i of the result s so far: a term that
\* is not evaluated yet is evaluated; an error ends the step.
evaluateNext(s, i, mode, Roll) ==
    IF s.threw \/ s.terms[i]._evaluated THEN {s}
    ELSE {IF e.threw
          THEN [s EXCEPT !.threw = TRUE, !.error = e.error,
                         !.rolled = s.rolled \o e.rolled, !.bad = s.bad \/ e.bad]
          ELSE [s EXCEPT !.terms[i] = e.term,
                         !.rolled = s.rolled \o e.rolled, !.bad = s.bad \/ e.bad] :
             e \in TermEvaluations(s.terms[i], mode, Roll)}

RECURSIVE evaluateTerms(_, _, _, _)
evaluateTerms(s, i, mode, Roll) ==
    IF i > Len(s.terms) THEN {s}
    ELSE UNION {evaluateTerms(r, i + 1, mode, Roll) : r \in evaluateNext(s, i, mode, Roll)}

\* Step 2 of _evaluateSync on the result of step 1.
simplifyStep(s) == [s EXCEPT !.terms = simplifyTerms(s.terms)]

modelledStep(s) == [s EXCEPT !.bad = s.bad \/ ~ModelledTerms(s.terms)]

\* Step 4 of _evaluateSync on the result s of step 3: the total, or the
\* non-numeric error.
storeTotal(s, r) ==
    [threw |-> r.threw, error |-> IF r.threw THEN "NonNumeric" ELSE "none",
     terms |-> s.terms, _dice |-> s._dice, total |-> r.value, rolled |-> s.rolled, bad |-> s.bad]

totalStep(s) ==
    IF s.threw
    THEN [threw |-> TRUE, error |-> s.error, terms |-> s.terms, _dice |-> s._dice,
          total |-> Undefined, rolled |-> s.rolled, bad |-> s.bad]
    ELSE storeTotal(s, _evaluateTotal(s.terms))

\* An error in step 1 leaves this.terms as it was.
keepTerms(s, ts) == [s EXCEPT !.terms = IF s.threw THEN ts ELSE s.terms]

\* _evaluateSync on the terms ts and inner dice of a Roll: the four steps.
\* The result has the fields of the Roll afterwards and says whether and
\* with which error the evaluation threw.
_evaluateSync(ts, inner, mode, Roll) ==
    UNION { IF s1.threw THEN {totalStep(keepTerms(s1, ts))}
            ELSE {totalStep(s3) :
                    s3 \in evaluateTerms(modelledStep(simplifyStep(s1)), 1, mode, Roll)} :
               s1 \in resolveIntermediate(ts, 1,
                          [threw |-> FALSE, error |-> "none", terms |-> <<>>, _dice |-> inner,
                           rolled |-> <<>>, bad |-> FALSE], mode, Roll) }

\* new Roll(formula).evaluate({minimize, maximize, async: false}) with the
\* class Roll for the Rolls inside: the total and the dice of the Roll, or
\* the error of the constructor ("Unbalanced") or of the evaluation.
createAndEvaluate(formula, mode, Roll) ==
    UNION { IF p.threw THEN {Failure("Unbalanced", p.rolled, p.bad)}
            ELSE {[threw |-> e.threw, error |-> e.error, terms |-> e.terms, _dice |-> e._dice,
                   total |-> e.total, dice |-> dice(e.terms, e._dice),
                   rolled |-> p.rolled \o e.rolled,
                   bad |-> p.bad \/ e.bad \/ ~ModelledTerms(p.terms)] :
                     e \in _evaluateSync(p.terms, <<>>, mode, Roll)} :
               p \in parse(formula, Roll) }

\* The strings formulas are, and the ways to evaluate.
Lexeme ==
    [kind : STRING, number : Nat, faces : Nat, operator : STRING,
     modifiers : Seq([code : STRING, target : Nat])]
EvaluateModes == {"random", "minimize", "maximize"}

\* The Roll class as its strings see it, for brackets nested depth deep:
\* the outcomes of constructing a Roll from a formula and evaluating it.
RECURSIVE RollClass(_)
RollClass(depth) ==
    [formula \in Seq(Lexeme) |-> [mode \in EvaluateModes |->
        IF depth = 0 THEN {Failure("Unmodelled", <<>>, TRUE)}
        ELSE createAndEvaluate(formula, mode, RollClass(depth - 1))]]

DCRoll == RollClass(MaxNesting)

evalFormula(formula, mode) == DCRoll[formula][mode]

\* getFormula of the parsed terms: this._formula of a constructed Roll.
RECURSIVE getFormula(_, _)
getFormula(ts, i) ==
    IF i > Len(ts) THEN <<>> ELSE termFormula(ts[i]) \o getFormula(ts, i + 1)

\* The terms the constructor stores for a formula whose parsing rolls no
\* dice (a formula without math call and pool).
parsedTerms(formula) == (CHOOSE p \in parse(formula, DCRoll) : TRUE).terms

(***************************************************************************)
(* The subsystems at rest: no check made, no reroll dialog open.           *)
(***************************************************************************)
IdleCheck ==
    [pc |-> "idle", path |-> "none", result |-> "", value |-> 0, numDice |-> 0,
     terms |-> <<>>, _total |-> Undefined, dices |-> <<>>,
     msgTotal |-> Undefined, relance |-> FALSE]

CheckIdle == check = IdleCheck

\* No clone() or reroll() has been called.
NoCopy ==
    [by |-> "none", calls |-> 0, threw |-> FALSE, _formula |-> <<>>, terms |-> <<>>,
     _dice |-> <<>>, _evaluated |-> FALSE, _total |-> Undefined, rolled |-> <<>>]

CloneIdle == copy = NoCopy

RelanceIdle ==
    /\ impl = "none"
    /\ object = [value |-> 0, selected |-> 0, result |-> 0]
    /\ flags = [results |-> 0, dices |-> <<>>]
    /\ message = [exists |-> FALSE, deleting |-> FALSE]
    /\ handler = <<>>
    /\ created = <<>>

RollIdle ==
    /\ terms = <<>>
    /\ _dice = <<>>
    /\ _evaluated = FALSE
    /\ _total = Undefined
    /\ pc = "idle"
    /\ lastError = "none"
    /\ shown = Undefined
    /\ waiting = "none"
    /\ edits = 0
    /\ _formula = <<>>
    /\ resolved = <<>>
    /\ generated = <<>>

(***************************************************************************)
(* replaceFormulaData.  Here a formula is the sequence of its characters,  *)
(* and a value of the data is a string, a number, null, undefined or an    *)
(* object with the values of its keys.                                     *)
(***************************************************************************)
MaxTextLen == 4       \* characters of the formulas given to replaceFormulaData

\* The characters the formulas are written with, and those among them that
\* /@([a-z.0-9_-]+)/gi takes for part of a reference.
Chars     == {"@", "a", "B", ".", "-", "+"}
PathChars == {"a", "B", ".", "-"}

JsValue(type, text, number, fields) ==
    [type |-> type, text |-> text, number |-> number, fields |-> fields]
JsUndefined      == JsValue("undefined", <<>>, 0, <<>>)
JsNull           == JsValue("null", <<>>, 0, <<>>)
JsString(s)      == JsValue("string", s, 0, <<>>)
JsNumber(n)      == JsValue("number", <<>>, n, <<>>)
JsObject(fields) == JsValue("object", <<>>, 0, fields)

\* String(value) of the host language.
String(value) ==
    CASE value.type = "string"    -> value.text
      [] value.type = "number"    -> <<(<<"0", "1", "2", "3", "4", "5", "6", "7", "8", "9">>)[value.number + 1]>>
      [] value.type = "null"      -> <<"n", "u", "l", "l">>
      [] value.type = "undefined" -> <<"u", "n", "d", "e", "f", "i", "n", "e", "d">>
      [] value.type = "object"    ->
            <<"[", "o", "b", "j", "e", "c", "t", " ", "O", "b", "j", "e", "c", "t", "]">>

\* String.prototype.trim.
RECURSIVE trimStart(_)
trimStart(s) == IF s # <<>> /\ Head(s) = " " THEN trimStart(Tail(s)) ELSE s

RECURSIVE trimEnd(_)
trimEnd(s) == IF s # <<>> /\ s[Len(s)] = " " THEN trimEnd(SubSeq(s, 1, Len(s) - 1)) ELSE s

trim(s) == trimEnd(trimStart(s))

\* key.split("."): a dot ends a part and begins the next one.
splitPart_(parts, c) ==
    IF c = "." THEN Append(parts, <<>>)
    ELSE [parts EXCEPT ![Len(parts)] = Append(parts[Len(parts)], c)]

RECURSIVE split(_, _, _)
split(key, i, parts) ==
    IF i > Len(key) THEN parts ELSE split(key, i + 1, splitPart_(parts, key[i]))

\* foundry.utils.getProperty(object, key): the parts of the key are followed
\* through the objects; a part that is not there, or a value on the way that
\* is not an object, gives undefined.
RECURSIVE follow(_, _, _)
follow(target, parts, i) ==
    IF i > Len(parts) THEN target
    ELSE IF target.type # "object" THEN JsUndefined
    ELSE IF parts[i] \notin DOMAIN target.fields THEN JsUndefined
    ELSE follow(target.fields[parts[i]], parts, i + 1)

getProperty(obj, key) ==
    IF key = <<>> THEN JsUndefined ELSE follow(obj, split(key, 1, <<<<>>>>), 1)

\* The replacer without trim.
replacement_NoTrim(matched, value, missing) ==
    IF value.type \in {"null", "undefined"}
    THEN (IF missing.type # "undefined" THEN String(missing) ELSE matched)
    ELSE String(value)

\* The replacer of replaceFormulaData for one match "@term" and the value
\* found for term: value == null holds for null and for undefined.
replacement(matched, value, missing) ==
    IF value.type \in {"null", "undefined"}
    THEN (IF missing.type # "undefined" THEN String(missing) ELSE matched)
    ELSE trim(String(value))

\* formula.replace(dataRgx, replacer): the formula is read once from left
\* to right.  An "@" opens a match, the characters of the pattern behind it
\* are its term, and the match ends in front of the first other character;
\* an "@" with no such character behind it is ordinary text.  What the
\* replacer returns is not read again.
closeMatch(st, data, missing) ==
    IF ~st.open THEN st.out
    ELSE IF st.term = <<>> THEN Append(st.out, "@")
    ELSE st.out \o replacement(<<"@">> \o st.term, getProperty(data, st.term), missing)

readChar(st, c, data, missing) ==
    IF st.open /\ c \in PathChars
    THEN [st EXCEPT !.term = Append(st.term, c)]
    ELSE IF c = "@"
    THEN [out |-> closeMatch(st, data, missing), open |-> TRUE, term |-> <<>>]
    ELSE [out |-> Append(closeMatch(st, data, missing), c), open |-> FALSE, term |-> <<>>]

RECURSIVE readFormula(_, _, _, _, _)
readFormula(formula, i, st, data, missing) ==
    IF i > Len(formula) THEN closeMatch(st, data, missing)
    ELSE readFormula(formula, i + 1, readChar(st, formula[i], data, missing), data, missing)

replaceFormulaData(formula, data, missing) ==
    readFormula(formula, 1, [out |-> <<>>, open |-> FALSE, term |-> <<>>], data, missing)

\* Step 1 of parse on a formula of lexemes: a reference is replaced by what
\* the replacer returns for it with the option missing "0", read as lexemes
\* again (a digit is a number).  The Rolls of the model are constructed with
\* the data {qualites: {costaud: 4}}.
Qualites == <<"q", "u", "a", "l", "i", "t", "e", "s">>
Costaud  == <<"c", "o", "s", "t", "a", "u", "d">>
RollData == JsObject(Qualites :> JsObject(Costaud :> JsNumber(4)))

ReferenceTerm(name) ==
    IF name = "qualites.costaud" THEN Qualites \o <<".">> \o Costaud ELSE <<"a">>

lexemes(text) ==
    IF Len(text) = 1 /\ \E n \in 0..9 : String(JsNumber(n)) = text
    THEN <<FNum(CHOOSE n \in 0..9 : String(JsNumber(n)) = text)>>
    ELSE <<[FUndefined EXCEPT !.operator = "text"]>>

replaceReference(lexeme, data) ==
    IF lexeme.kind # "ref" THEN <<lexeme>>
    ELSE lexemes(replacement(<<"@">> \o ReferenceTerm(lexeme.operator),
                             getProperty(data, ReferenceTerm(lexeme.operator)),
                             JsString(<<"0">>)))

replaceReferences(formula, data) ==
    Flatten([i \in 1..Len(formula) |-> replaceReference(formula[i], data)], 1)

\* parse(formula, data) of a Roll of the model: step 1, then the splitting
\* and the classification.
parseFormula(formula) == parse(replaceReferences(formula, RollData), DCRoll)

\* The data objects the formulas are replaced with:
\*   {}
\*   {a: " 3 ", B: {a: 7, B: null}}
\*   {a: "@B", B: 0, "-": ""}
Contexts ==
    { JsObject(<<>>),
      JsObject((<<"a">> :> JsString(<<" ", "3", " ">>))
               @@ (<<"B">> :> JsObject((<<"a">> :> JsNumber(7)) @@ (<<"B">> :> JsNull)))),
      JsObject((<<"a">> :> JsString(<<"@", "B">>))
               @@ (<<"B">> :> JsNumber(0))
               @@ (<<"-">> :> JsString(<<>>))) }

\* The option missing of a direct call: not given, "5", null.
Missings == {JsUndefined, JsString(<<"5">>), JsNull}

ReplaceIdle ==
    substitution = [formula |-> <<>>, data |-> JsObject(<<>>), missing |-> JsUndefined,
                    by |-> "none", replaced |-> <<>>]

\* A formula, a data object and an option, not yet replaced.
InitReplace ==
    substitution \in [formula : UNION {[1..n -> Chars] : n \in 0..MaxTextLen},
                      data : Contexts, missing : Missings, by : {"none"}, replaced : {<<>>}]

ReplaceFrame == UNCHANGED <<rollVars, checkVars, relanceVars, cloneVars>>

\* DCRoll.replaceFormulaData(formula, data, {missing}), called directly.
ReplaceFormulaData ==
    /\ substitution.by = "none"
    /\ substitution' =
          [substitution EXCEPT
              !.by = "replaceFormulaData",
              !.replaced = replaceFormulaData(substitution.formula, substitution.data,
                                              substitution.missing)]
    /\ ReplaceFrame

\* Step 1 of DCRoll.parse(formula, data): the option missing is "0".
ParseReplace ==
    /\ substitution.by = "none"
    /\ substitution' =
          [substitution EXCEPT
              !.by = "parse",
              !.missing = JsString(<<"0">>),
              !.replaced = replaceFormulaData(substitution.formula, substitution.data,
                                              JsString(<<"0">>))]
    /\ ReplaceFrame

NextReplace == ReplaceFormulaData \/ ParseReplace

InitSpecReplace == InitReplace /\ RollIdle /\ CheckIdle /\ RelanceIdle /\ CloneIdle

SpecReplace == InitSpecReplace /\ [][NextReplace]_vars

(***************************************************************************)
(* DCRoll.                                                                 *)
(***************************************************************************)
RollDifficulty == 3

\* The formulas the engine is exercised with:
\*   "<MaxDice>D6cs<=3", "1D6+2", "1/0", "0/0", "+4*" and the empty formula.
RollFormulas ==
    { <<FDice(MaxDice, Faces, cs(RollDifficulty))>>,
      <<FDice(1, Faces, <<>>), FOp("+"), FNum(2)>>,
      <<FNum(1), FOp("/"), FNum(0)>>,
      <<FNum(0), FOp("/"), FNum(0)>>,
      <<FOp("+"), FNum(4), FOp("*")>>,
      <<>> }

\* The state the constructor leaves: parsed terms, no inner dice, not
\* evaluated, total undefined.
InitRoll ==
    /\ _formula \in RollFormulas
    /\ terms = parsedTerms(_formula)
    /\ _dice = <<>>
    /\ _evaluated = FALSE
    /\ _total = Undefined
    /\ pc = "idle"
    /\ lastError = "none"
    /\ shown = Undefined
    /\ waiting = "none"
    /\ edits = 0
    /\ generated = <<>>
    /\ resolved = <<>>

\* A step of the Roll leaves the check and the reroll dialog alone.
RollFrame == UNCHANGED <<checkVars, relanceVars, replaceVars, cloneVars>>

\* There is a Roll object: the constructor has run and has not thrown.
Constructed == pc \notin {"new", "failed"}

\* The dice groups ds, entered in the log as generated by operation by.
Tag(by, ds) == [i \in 1..Len(ds) |-> [by |-> by, die |-> ds[i]]]

\* new DCRoll(formula): the formula is parsed into this.terms and
\* this._formula is reset from the terms; an error of the parser leaves no
\* Roll.
Construct ==
    /\ pc = "new"
    /\ \E p \in parseFormula(_formula) :
          /\ generated' = generated \o Tag("constructor", p.rolled)
          /\ IF p.threw
             THEN /\ pc' = "failed"
                  /\ lastError' = "Unbalanced"
                  /\ UNCHANGED <<terms, _formula>>
             ELSE /\ pc' = "idle"
                  /\ lastError' = "none"
                  /\ terms' = p.terms
                  /\ _formula' = getFormula(p.terms, 1)
    /\ UNCHANGED <<_dice, _evaluated, _total, shown, waiting, edits, resolved>>
    /\ RollFrame

\* The guard of evaluate: an evaluated Roll refuses to be evaluated again.
evaluateGuard_Missing(evaluated) == FALSE
evaluateGuard(evaluated) == evaluated

\* The guard of alter.
alterGuard(evaluated) == evaluated

Unevaluated(ts) == {i \in 1..Len(ts) : ~ts[i]._evaluated}
FirstUnevaluated(ts) == CHOOSE i \in Unevaluated(ts) : \A j \in Unevaluated(ts) : i <= j

\* Throw, with the error swallowed: the evaluation returns.
Throw_Swallowed(error, ts, d, log) ==
    /\ terms' = ts
    /\ _dice' = d
    /\ generated' = generated \o Tag("evaluate", log)
    /\ resolved' = <<>>
    /\ pc' = "returned"
    /\ lastError' = "none"
    /\ waiting' = "none"
    /\ UNCHANGED <<_total, shown>>

\* An evaluation that throws: the error reaches the caller, the terms ts
\* and inner dice d reached so far stay, no total is stored.
Throw(error, ts, d, log) ==
    /\ terms' = ts
    /\ _dice' = d
    /\ generated' = generated \o Tag("evaluate", log)
    /\ resolved' = <<>>
    /\ pc' = "threw"
    /\ lastError' = error
    /\ waiting' = "none"
    /\ UNCHANGED <<_total, shown>>

\* Step 4 of _evaluate / _evaluateSync on the evaluated terms ts: the total
\* is stored, or the error is thrown and no total is stored.  w names the
\* render or toMessage that awaits this evaluation, if any: on success
\* toMessage reads the total and render goes on to its next await.
Store(r, ts, d, log, w) ==
    IF r.threw
    THEN Throw("NonNumeric", ts, d, log)
    ELSE /\ terms' = ts
         /\ _dice' = d
         /\ generated' = generated \o Tag("evaluate", log)
         /\ resolved' = <<>>
         /\ _total' = r.value
         /\ pc' = "returned"
         /\ lastError' = "none"
         /\ waiting' = IF w = "render:evaluate" THEN "render:getTooltip" ELSE "none"
         /\ shown' = IF w = "toMessage:evaluate" THEN r.value ELSE shown

Step4(ts, d, log, w) == Store(_evaluateTotal(ts), ts, d, log, w)

\* Step 3 of _evaluate: the next unevaluated term of ts is evaluated and the
\* evaluation is suspended at the await; with none left, step 4 follows.
Step3(ts, d, w) ==
    IF Unevaluated(ts) = {}
    THEN Step4(ts, d, <<>>, w)
    ELSE LET i == FirstUnevaluated(ts)
         IN  \E e \in TermEvaluations(ts[i], "random", DCRoll) :
                IF e.threw
                THEN Throw(e.error, ts, d, e.rolled)
                ELSE /\ terms' = [ts EXCEPT ![i] = e.term]
                     /\ _dice' = d
                     /\ generated' = generated \o Tag("evaluate", e.rolled)
                     /\ resolved' = <<>>
                     /\ pc' = "step3"
                     /\ lastError' = "none"
                     /\ waiting' = w
                     /\ UNCHANGED <<_total, shown>>

Intermediates(ts, from) == {i \in from..Len(ts) : isIntermediate(ts[i])}

\* Step 1 of _evaluate, with the local list done of the terms handled so
\* far: the next intermediate term of this.terms is evaluated, its dice are
\* added to this._dice, a NumericTerm with its total takes its place in the
\* local list, and the evaluation is suspended at the await.  With none
\* left the local list becomes this.terms, step 2 simplifies it and step 3
\* follows.
Step1(done, w) ==
    LET todo == Intermediates(terms, Len(done) + 1)
    IN  IF todo = {}
        THEN Step3(simplifyTerms(done \o SubSeq(terms, Len(done) + 1, Len(terms))), _dice, w)
        ELSE LET j == CHOOSE i \in todo : \A k \in todo : i <= k
             IN  \E e \in TermEvaluations(terms[j], "random", DCRoll) :
                    IF e.threw
                    THEN Throw(e.error, terms, _dice, e.rolled)
                    ELSE /\ resolved' = done \o SubSeq(terms, Len(done) + 1, j - 1)
                                                 \o <<NumericTerm(e.total)>>
                         /\ _dice' = _dice \o e.dice
                         /\ generated' = generated \o Tag("evaluate", e.rolled)
                         /\ pc' = "step1"
                         /\ lastError' = "none"
                         /\ waiting' = w
                         /\ UNCHANGED <<terms, _total, shown>>

\* evaluate({async: true}) up to its first await (roll() is an alias).
Evaluate ==
    /\ Constructed
    /\ IF evaluateGuard(_evaluated)
       THEN /\ lastError' = "AlreadyEvaluated"
            /\ UNCHANGED <<terms, _dice, _evaluated, _total, pc, shown, waiting, generated, resolved>>
       ELSE /\ _evaluated' = TRUE
            /\ Step1(<<>>, "none")
    /\ UNCHANGED <<edits, _formula>>
    /\ RollFrame

\* The continuation of _evaluate after an await of step 1 or of step 3.
EvaluateResume ==
    /\ pc \in {"step1", "step3"}
    /\ IF pc = "step1" THEN Step1(resolved, waiting) ELSE Step3(terms, _dice, waiting)
    /\ UNCHANGED <<_evaluated, edits, _formula>>
    /\ RollFrame

\* evaluate({async: false}), and evaluate with minimize or maximize, which
\* forces the synchronous path: _evaluateSync runs all four steps at once.
EvaluateSync(mode) ==
    /\ Constructed
    /\ IF evaluateGuard(_evaluated)
       THEN /\ lastError' = "AlreadyEvaluated"
            /\ UNCHANGED <<terms, _dice, _evaluated, _total, pc, shown, waiting, generated, resolved>>
       ELSE /\ _evaluated' = TRUE
            /\ \E e \in _evaluateSync(terms, _dice, mode, DCRoll) :
                  IF e.threw
                  THEN Throw(e.error, e.terms, e._dice, e.rolled)
                  ELSE Step4(e.terms, e._dice, e.rolled, "none")
    /\ UNCHANGED <<edits, _formula>>
    /\ RollFrame

\* Die.alter(multiply, add) of the host on an unevaluated dice group.
alterTerm(t, multiply, add) ==
    IF isDie(t) THEN [t EXCEPT !.number = t.number * multiply + add] ELSE t

\* alter(multiply, add): refused on an evaluated Roll.
Alter(multiply, add) ==
    /\ Constructed
    /\ IF alterGuard(_evaluated)
       THEN /\ lastError' = "AlterEvaluated"
            /\ UNCHANGED <<terms, _formula>>
       ELSE /\ \A i \in 1..Len(terms) : alterTerm(terms[i], multiply, add).number <= MaxDice
            /\ \E i \in 1..Len(terms) : alterTerm(terms[i], multiply, add) # terms[i]
            /\ terms' = [i \in 1..Len(terms) |-> alterTerm(terms[i], multiply, add)]
            /\ _formula' = getFormula(terms', 1)
            /\ lastError' = "none"
    /\ UNCHANGED <<_dice, _evaluated, _total, pc, shown, waiting, edits, generated, resolved>>
    /\ RollFrame

\* The dice of the Roll: this.dice = this._dice followed by the dice terms.
DiceTerms(ts) == {i \in 1..Len(ts) : isDie(ts[i])}
FirstDie(ts)  == CHOOSE i \in DiceTerms(ts) : \A j \in DiceTerms(ts) : i <= j

\* editRoll(num, value) on the terms ts and the cached total: a TypeError
\* when the Roll has no die or no result num; otherwise result num of the
\* first die becomes value.results[0] and the total grows by one when that
\* result is a success.
editRoll(ts, total, num, value) ==
    IF DiceTerms(ts) = {} \/ num \notin 1..Len(ts[FirstDie(ts)].results)
    THEN [threw |-> TRUE, terms |-> ts, _total |-> total]
    ELSE LET d == FirstDie(ts)
         IN  [threw  |-> FALSE,
              terms  |-> [ts EXCEPT ![d].results[num] = value.results[1]],
              _total |-> IF value.results[1].success = "true"
                         THEN JsAdd(total, Num(1)) ELSE total]

\* The die a reroll hands to editRoll: r.dice[0] of an evaluated "1D6cs<=T".
RerollDie(v, T) == rollDie(Die(1, Faces, cs(T)), <<v>>)

EditRoll(num, v) ==
    /\ Constructed
    /\ edits < MaxEdits
    /\ LET e == editRoll(terms, _total, num, RerollDie(v, RollDifficulty))
       IN  /\ terms' = e.terms
           /\ _total' = e._total
           /\ lastError' = IF e.threw THEN "TypeError" ELSE "none"
    /\ edits' = edits + 1
    /\ UNCHANGED <<_dice, _evaluated, pc, shown, waiting, _formula, generated, resolved>>
    /\ RollFrame

\* toMessage: evaluates the Roll first when it is not evaluated, then reads
\* the total for the message content.
ToMessage ==
    /\ Constructed
    /\ waiting = "none"
    /\ IF ~_evaluated
       THEN /\ _evaluated' = TRUE
            /\ Step1(<<>>, "toMessage:evaluate")
       ELSE /\ shown' = _total
            /\ UNCHANGED <<terms, _dice, _evaluated, _total, pc, lastError, waiting, generated, resolved>>
    /\ UNCHANGED <<edits, _formula>>
    /\ RollFrame

\* render: evaluates the Roll first when it is not evaluated, then awaits
\* the tooltip before it reads the total.
Render ==
    /\ Constructed
    /\ waiting = "none"
    /\ IF ~_evaluated
       THEN /\ _evaluated' = TRUE
            /\ Step1(<<>>, "render:evaluate")
       ELSE /\ waiting' = "render:getTooltip"
            /\ UNCHANGED <<terms, _dice, _evaluated, _total, pc, lastError, shown, generated, resolved>>
    /\ UNCHANGED <<edits, _formula>>
    /\ RollFrame

\* The continuation of render after "await this.getTooltip()": the total is
\* read and rounded for the chat data.
RenderResume ==
    /\ waiting = "render:getTooltip"
    /\ shown' = round2(_total)
    /\ waiting' = "none"
    /\ UNCHANGED <<terms, _dice, _evaluated, _total, pc, lastError, edits, _formula, generated, resolved>>
    /\ RollFrame

\* toJSON: the serialisable data of the Roll.
toJSON(f, ts, inner, total, evaluated) ==
    [formula |-> f, terms |-> ts, dice |-> inner, total |-> total, evaluated |-> evaluated]

\* fromData: a new Roll is constructed from the formula of the data, which
\* parses the formula again; it then takes the terms of the data and, when
\* the data is evaluated, its total and inner dice.
fromData(data) ==
    { IF p.threw
      THEN [threw |-> TRUE, rolled |-> p.rolled, _formula |-> data.formula, terms |-> <<>>,
            _dice |-> <<>>, _total |-> Undefined, _evaluated |-> FALSE]
      ELSE [threw |-> FALSE, rolled |-> p.rolled, _formula |-> getFormula(p.terms, 1),
            terms |-> data.terms,
            _dice |-> IF data.evaluated THEN data.dice ELSE <<>>,
            _total |-> IF data.evaluated THEN data.total ELSE Undefined,
            _evaluated |-> data.evaluated] :
        p \in parseFormula(data.formula) }

\* The Roll under observation becomes DCRoll.fromData(roll.toJSON()); the
\* new object has no evaluation in flight.
Reload ==
    /\ Constructed
    /\ pc # "idle" \/ _evaluated
    /\ Len(generated) <= MaxLog
    /\ \E roll \in fromData(toJSON(_formula, terms, _dice, _total, _evaluated)) :
          /\ generated' = generated \o Tag("fromData", roll.rolled)
          /\ IF roll.threw
             THEN /\ pc' = "failed"
                  /\ lastError' = "Unbalanced"
                  /\ UNCHANGED <<_formula, terms, _dice, _total, _evaluated>>
             ELSE /\ _formula' = roll._formula
                  /\ terms' = roll.terms
                  /\ _dice' = roll._dice
                  /\ _total' = roll._total
                  /\ _evaluated' = roll._evaluated
                  /\ pc' = "idle"
                  /\ lastError' = "none"
    /\ waiting' = "none"
    /\ resolved' = <<>>
    /\ UNCHANGED <<shown, edits>>
    /\ RollFrame

NextRoll ==
    \/ Evaluate
    \/ EvaluateResume
    \/ \E mode \in EvaluateModes : EvaluateSync(mode)
    \/ \E multiply \in 1..2, add \in 0..1 : Alter(multiply, add)
    \/ \E num \in 1..MaxDice, v \in 1..Faces : EditRoll(num, v)
    \/ Reload

InitSpecRoll == InitRoll /\ CheckIdle /\ RelanceIdle /\ ReplaceIdle /\ CloneIdle

SpecRoll == InitSpecRoll /\ [][NextRoll]_vars

\* The same Rolls with render and toMessage called at any moment, also
\* while an evaluation is suspended at one of its awaits.
NextRender ==
    \/ Evaluate
    \/ EvaluateResume
    \/ \E mode \in EvaluateModes : EvaluateSync(mode)
    \/ ToMessage
    \/ Render
    \/ RenderResume

SpecRender == InitSpecRoll /\ [][NextRender]_vars

\* C29 (as claimed): whenever toMessage or render reads the total of a Roll
\* no evaluation of which has failed (toMessage on an evaluated Roll at
\* once, render after its tooltip), the total is a defined number, also
\* when the call comes while an evaluation is suspended at an await.
C29_TotalDefinedWhenRead ==
    [][ (pc # "threw" /\ ((_evaluated /\ ToMessage) \/ RenderResume)) => isNumeric(_total) ]_vars

(***************************************************************************)
(* DCRoll from the formula on: the constructor parses, evaluate resolves    *)
(* parentheses, math calls and pools.                                      *)
(***************************************************************************)
MaxFormulaLen == 3    \* lexemes of the formulas that are enumerated

\* The lexemes the enumerated formulas are written with:
\*   2  1d2  d2  +  (  )  {  }
FormulaLexemes ==
    { FNum(2), FDice(1, 2, <<>>), FDice(0, 2, <<>>), FOp("+"),
      FOpen(""), FClose, FPoolOpen, FPoolClose }

\* Longer formulas with a math call, commas, "*" and a second kind of die:
\*   1d2+(1d3)   (1d3)+1d2   1d2+{1d3}   max(1d2,2)   {1d2,2}   {1d2,2}{
\*   1d2+*2      2+2*2       2*2+2       (1d2)(2)     (2)d2+{  max(2,2
\*   ((2))       ((2)+2)(2)  {{2}}+{2}   (2+1)D6
\*   @qualites.costaud D6    @a+2    2 + 1d2     1d2{2}
ChosenFormulas ==
    { <<FDice(1, 2, <<>>), FOp("+"), FOpen(""), FDice(1, 3, <<>>), FClose>>,
      <<FOpen(""), FDice(1, 3, <<>>), FClose, FOp("+"), FDice(1, 2, <<>>)>>,
      <<FDice(1, 2, <<>>), FOp("+"), FPoolOpen, FDice(1, 3, <<>>), FPoolClose>>,
      <<FOpen("max"), FDice(1, 2, <<>>), FComma, FNum(2), FClose>>,
      <<FPoolOpen, FDice(1, 2, <<>>), FComma, FNum(2), FPoolClose>>,
      <<FPoolOpen, FDice(1, 2, <<>>), FComma, FNum(2), FPoolClose, FPoolOpen>>,
      <<FDice(1, 2, <<>>), FOp("+"), FOp("*"), FNum(2)>>,
      <<FNum(2), FOp("+"), FNum(2), FOp("*"), FNum(2)>>,
      <<FNum(2), FOp("*"), FNum(2), FOp("+"), FNum(2)>>,
      <<FOpen(""), FDice(1, 2, <<>>), FClose, FOpen(""), FNum(2), FClose>>,
      <<FOpen(""), FNum(2), FClose, FDice(0, 2, <<>>), FOp("+"), FPoolOpen>>,
      <<FOpen("max"), FNum(2), FComma, FNum(2)>>,
      <<FOpen(""), FNum(2), FOp("+"), FNum(1), FClose, FDice(0, Faces, <<>>)>>,
      <<FRef("qualites.costaud"), FBlank, FDice(0, Faces, <<>>)>>,
      <<FRef("a"), FOp("+"), FNum(2)>>,
      <<FNum(2), FBlank, FOp("+"), FBlank, FDice(1, 2, <<>>)>>,
      <<FDice(1, 2, <<>>), FPoolOpen, FNum(2), FPoolClose>>,
      <<FOpen(""), FOpen(""), FNum(2), FClose, FClose>>,
      <<FOpen(""), FOpen(""), FNum(2), FClose, FOp("+"), FNum(2), FClose, FOpen(""), FNum(2), FClose>>,
      <<FPoolOpen, FPoolOpen, FNum(2), FPoolClose, FPoolClose, FOp("+"), FPoolOpen, FNum(2), FPoolClose>> }

\* Formulas the lexemes stand for faithfully: the pattern that closes a
\* pool takes a number, dice expression or comma behind "}" for modifiers
\* of the pool, and the pattern that opens parentheses takes a dice
\* expression in front of "max(" for part of the function name.
Admissible(f) ==
    \A i \in 1..(Len(f) - 1) :
        /\ f[i].kind = "poolClose" => f[i + 1].kind \notin {"numeric", "dice", "comma"}
        /\ f[i].kind = "dice" => ~(f[i + 1].kind = "open" /\ f[i + 1].operator # "")

\* The formulas a Roll is constructed from: the admissible ones whose
\* parsing and evaluation stay within what the model follows.
Formulas ==
    { f \in ChosenFormulas \cup UNION { [1..n -> FormulaLexemes] : n \in 0..MaxFormulaLen } :
        /\ Admissible(f)
        /\ \A p \in parseFormula(f) : ~p.bad /\ ModelledTerms(p.terms)
        /\ \A o \in evalFormula(replaceReferences(f, RollData), "random") : ~o.bad }

\* Before the constructor runs: the formula is given, there is no Roll.
InitFormula ==
    /\ _formula \in Formulas
    /\ terms = <<>>
    /\ _dice = <<>>
    /\ _evaluated = FALSE
    /\ _total = Undefined
    /\ pc = "new"
    /\ lastError = "none"
    /\ shown = Undefined
    /\ waiting = "none"
    /\ edits = 0
    /\ generated = <<>>
    /\ resolved = <<>>

NextFormula ==
    \/ Construct
    \/ Evaluate
    \/ EvaluateResume
    \/ \E mode \in EvaluateModes : EvaluateSync(mode)
    \/ Reload

InitSpecFormula == InitFormula /\ CheckIdle /\ RelanceIdle /\ ReplaceIdle /\ CloneIdle

SpecFormula == InitSpecFormula /\ [][NextFormula]_vars

(***************************************************************************)
(* clone and reroll: a second Roll object beside the Roll under            *)
(* observation.                                                            *)
(***************************************************************************)
MaxClones   == 2    \* calls of clone and reroll on one Roll
MaxCloneLen == 2    \* lexemes of the enumerated formulas of the cloned Rolls

\* The fields of a Roll object.
RollObject(f, ts, inner, evaluated, total) ==
    [_formula |-> f, terms |-> ts, _dice |-> inner, _evaluated |-> evaluated, _total |-> total]

\* new this.constructor(formula, data, options): the Roll the constructor
\* leaves, with the dice its parsing rolled, or the error of the parser.
newRoll(formula, by) ==
    { IF p.threw
      THEN [NoCopy EXCEPT !.by = by, !.threw = TRUE, !.rolled = p.rolled]
      ELSE [by |-> by, calls |-> 0, threw |-> FALSE, _formula |-> getFormula(p.terms, 1),
            terms |-> p.terms, _dice |-> <<>>, _evaluated |-> FALSE, _total |-> Undefined,
            rolled |-> p.rolled] :
        p \in parseFormula(formula) }

\* A clone that hands out the Roll itself, reset to the unevaluated state.
clone_InPlace(this) ==
    {[this |-> [this EXCEPT !._evaluated = FALSE, !._total = Undefined, !.terms = r.terms], r |-> r] :
        r \in newRoll(this._formula, "clone")}

\* clone(): a new Roll from this._formula; this Roll is not written.
clone(this) == {[this |-> this, r |-> r] : r \in newRoll(this._formula, "clone")}

\* r.evaluate(options) on the new Roll r of reroll: the evaluated Roll, or
\* the error of the evaluation.
evaluateCopy(r, mode) ==
    { IF e.threw
      THEN [r EXCEPT !.by = "reroll", !.threw = TRUE, !._evaluated = TRUE, !.rolled = r.rolled \o e.rolled]
      ELSE [r EXCEPT !.by = "reroll", !._evaluated = TRUE, !.terms = e.terms, !._dice = e._dice,
                     !._total = e.total, !.rolled = r.rolled \o e.rolled] :
        e \in _evaluateSync(r.terms, <<>>, mode, DCRoll) }

\* reroll(options): this.clone(), then evaluate on the clone.
reroll(this, mode) ==
    UNION { IF c.r.threw THEN {[c EXCEPT !.r.by = "reroll"]}
            ELSE {[this |-> c.this, r |-> e] : e \in evaluateCopy(c.r, mode)} :
               c \in clone(this) }

\* The Roll under observation after a call that returned the pair c.
Returned(c) ==
    /\ _formula' = c.this._formula
    /\ terms' = c.this.terms
    /\ _dice' = c.this._dice
    /\ _evaluated' = c.this._evaluated
    /\ _total' = c.this._total
    /\ copy' = [c.r EXCEPT !.calls = copy.calls + 1]
    /\ UNCHANGED <<pc, lastError, shown, waiting, edits, resolved, generated>>
    /\ UNCHANGED <<checkVars, relanceVars, replaceVars>>

Clone ==
    /\ Constructed
    /\ copy.calls < MaxClones
    /\ \E c \in clone(RollObject(_formula, terms, _dice, _evaluated, _total)) : Returned(c)

Reroll(mode) ==
    /\ Constructed
    /\ copy.calls < MaxClones
    /\ \E c \in reroll(RollObject(_formula, terms, _dice, _evaluated, _total), mode) : Returned(c)

NextClone ==
    \/ Construct
    \/ Evaluate
    \/ EvaluateResume
    \/ \E mode \in EvaluateModes : EvaluateSync(mode)
    \/ Clone
    \/ \E mode \in EvaluateModes : Reroll(mode)

\* The Rolls that are cloned: those of the short formulas and of
\*   1d2+(1d3)   max(1d2,2)   {1d2,2}   2 + 1d2   @a+2
CloneFormulas ==
    { f \in Formulas : Len(f) <= MaxCloneLen }
        \cup ( Formulas \cap
                { <<FDice(1, 2, <<>>), FOp("+"), FOpen(""), FDice(1, 3, <<>>), FClose>>,
                  <<FOpen("max"), FDice(1, 2, <<>>), FComma, FNum(2), FClose>>,
                  <<FPoolOpen, FDice(1, 2, <<>>), FComma, FNum(2), FPoolClose>>,
                  <<FNum(2), FBlank, FOp("+"), FBlank, FDice(1, 2, <<>>)>>,
                  <<FRef("a"), FOp("+"), FNum(2)>> } )

InitSpecClone == InitSpecFormula /\ _formula \in CloneFormulas

SpecClone == InitSpecClone /\ [][NextClone]_vars

(***************************************************************************)
(* Claims about parsing and evaluation, checked under SpecFormula.         *)
(***************************************************************************)
\* The number of lexemes of formula f of the given kind.
CountKind(f, kind) == Cardinality({i \in 1..Len(f) : f[i].kind = kind})

\* Formula f has more opening brackets of one kind than closing brackets of
\* that kind: whatever way brackets are paired, an opening one stays alone.
UnmatchedOpen(f) ==
    \/ CountKind(f, "open") > CountKind(f, "close")
    \/ CountKind(f, "poolOpen") > CountKind(f, "poolClose")

\* C11 (as claimed): constructing a Roll from a formula in which an opening
\* bracket has no matching closing bracket throws: the parser returns no
\* term list and no Roll is constructed.
C11_UnbalancedNeverConstructs ==
    [][ (Construct /\ UnmatchedOpen(_formula)) => pc' = "failed" ]_vars

\* C12 (as claimed): when parsing a formula fails with an error, no die has
\* been rolled before the error is raised: the step of the constructor or
\* of fromData in which the parser throws generates no dice group.
C12_ParseErrorRollsNoDie ==
    [][ ((Construct \/ Reload) /\ pc' = "failed") => generated' = generated ]_vars

\* Some term of ts is a string fragment.
HasStringTerm(ts) == \E i \in 1..Len(ts) : ts[i].class \in {"StringTerm", "string"}

\* C13: after evaluate has returned successfully the term list of the Roll
\* holds no string fragment: an evaluation that meets a fragment the last
\* classification could not resolve has thrown and has not returned.
C13_NoStringAfterEvaluate == pc = "returned" => ~HasStringTerm(terms)

\* C13 witness: an evaluation has returned for a formula with the fragment
\* "d2", which the parser left as a string and simplifyTerms resolved.
C13_Witness ==
    /\ pc = "returned"
    /\ \E i \in 1..Len(_formula) : _formula[i].kind = "dice" /\ _formula[i].number = 0
    /\ \E i \in 1..Len(terms) : isDie(terms[i]) /\ Len(terms[i].results) > 0

\* C14 (as claimed): the steps of an evaluation come in a fixed order, so
\* once step 1 is over (the evaluation is in step 3 or has returned) every
\* parenthetical term, math call and pool of the term list has been
\* replaced by a numeric term.
C14_IntermediateResolvedFirst ==
    pc \in {"step3", "returned"}
        => \A i \in 1..Len(terms) :
              terms[i].class \notin {"ParentheticalTerm", "MathTerm", "PoolTerm"}

\* The numbers of faces of the dice expressions of formula f from lexeme i
\* on, in the order in which they are written.
RECURSIVE WrittenFaces(_, _)
WrittenFaces(f, i) ==
    IF i > Len(f) THEN <<>>
    ELSE (IF f[i].kind = "dice" THEN <<f[i].faces>> ELSE <<>>) \o WrittenFaces(f, i + 1)

\* The numbers of faces of the dice groups ds, in their order.
FacesOf(ds) == [i \in 1..Len(ds) |-> ds[i].faces]

\* The dice groups that evaluate has generated, in the order of generation.
RolledByEvaluate ==
    LET RECURSIVE Pick(_)
        Pick(i) ==
            IF i > Len(generated) THEN <<>>
            ELSE (IF generated[i].by = "evaluate" THEN <<generated[i].die>> ELSE <<>>) \o Pick(i + 1)
    IN  Pick(1)

\* C15 (as claimed): when evaluate has returned, the dice groups were rolled,
\* and are listed by the dice list of the Roll, in the left-to-right order
\* in which they are written in the formula.
C15_DiceInWrittenOrder ==
    pc = "returned"
        => /\ FacesOf(dice(terms, _dice)) = WrittenFaces(_formula, 1)
           /\ FacesOf(RolledByEvaluate) = WrittenFaces(_formula, 1)

\* Every dice group that evaluate has generated is in the dice list of the
\* Roll, with its results.
GeneratedReadable ==
    \A i \in 1..Len(RolledByEvaluate) :
        /\ Len(RolledByEvaluate[i].results) > 0
        /\ \E j \in 1..Len(dice(terms, _dice)) : dice(terms, _dice)[j] = RolledByEvaluate[i]

\* C16: when every term of an evaluation has been evaluated and the value
\* of the expression is not numeric, evaluate has thrown the non-numeric
\* error and has not returned, total is undefined, and the dice groups the
\* evaluation has rolled are in the dice list with their results.
C16_TotalFailureKeepsDice ==
    (/\ pc \in {"returned", "threw"}
     /\ lastError \in {"none", "NonNumeric"}
     /\ Unevaluated(terms) = {}
     /\ ~isNumeric(evalExpression(terms)))
        => (/\ pc = "threw"
            /\ lastError = "NonNumeric"
            /\ _total = Undefined
            /\ GeneratedReadable)

\* C16 witness: the total of an evaluation was not numeric after it had
\* rolled dice; the error was thrown and the dice list shows the dice.
C16_Witness ==
    /\ pc = "threw"
    /\ lastError = "NonNumeric"
    /\ RolledByEvaluate # <<>>
    /\ Len(dice(terms, _dice)) > 0
    /\ Unevaluated(terms) = {}

\* C18 (as claimed): for every Roll, evaluated or not, fromData(toJSON(r))
\* is a Roll with the same evaluated flag, the same total, the same formula
\* and the same results per die as r, and making it rolls no die.
C18_RoundTrip ==
    [][ Reload => (/\ pc' = "idle"
                   /\ _evaluated' = _evaluated
                   /\ _total' = _total
                   /\ _formula' = _formula
                   /\ dice(terms', _dice') = dice(terms, _dice)
                   /\ generated' = generated) ]_vars

\* Term i of ts is an operator term for a sign that stands where an operand
\* is expected, at the start or right behind another operator term, in
\* front of a number.
OperatorForOperand(ts, i) ==
    /\ isOperator(ts[i])
    /\ ts[i].operator \in {"+", "-"}
    /\ i = 1 \/ isOperator(ts[i - 1])
    /\ i < Len(ts)
    /\ ts[i + 1].class = "NumericTerm"

\* C20 (as claimed): an operator symbol written where an operand is
\* expected is attached to the number that follows it, so the terms the
\* constructor has parsed hold no operator term of its own at such a place.
C20_OperatorAttachesToOperand ==
    (pc = "idle" /\ ~_evaluated) => \A i \in 1..Len(terms) : ~OperatorForOperand(terms, i)

\* C21 (as claimed): the list simplifyTerms returns does not begin with an
\* operator term other than "-" and does not end with an operator term; the
\* term list of a Roll is that list from step 2 of its evaluation on.
C21_NoStrayOperator ==
    (pc \in {"step3", "returned"} /\ terms # <<>>)
        => /\ ~(isOperator(terms[1]) /\ terms[1].operator # "-")
           /\ ~isOperator(terms[Len(terms)])

\* The brackets of kind symbol that are open behind lexeme i of formula f.
Depth(f, i, symbol) ==
    Cardinality({k \in 1..i : IsOpenOf(f[k], symbol)})
        - Cardinality({k \in 1..i : IsCloseOf(f[k], symbol)})

\* Formula f is balanced in the brackets of kind symbol: no closing bracket
\* comes without an open one, and none stays open.
Balanced(f, symbol) ==
    /\ \A i \in 1..Len(f) : Depth(f, i, symbol) >= 0
    /\ Depth(f, Len(f), symbol) = 0

\* The top-level bracketed spans of a balanced formula from lexeme i on,
\* left to right, each from its opening bracket to the closing bracket that
\* matches it.
RECURSIVE TopSpans(_, _, _)
TopSpans(f, i, symbol) ==
    IF i > Len(f) THEN <<>>
    ELSE LET top == IsOpenOf(f[i], symbol) /\ Depth(f, i - 1, symbol) = 0
             j   == IF top THEN CHOOSE k \in i..Len(f) :
                                    /\ Depth(f, k, symbol) = 0
                                    /\ \A m \in i..(k - 1) : Depth(f, m, symbol) > 0
                    ELSE i
         IN  (IF top THEN <<SubSeq(f, i, j)>> ELSE <<>>) \o TopSpans(f, j + 1, symbol)

\* The groups of the given classes in term list ts from term i on, each as
\* the text it stands for.
RECURSIVE GroupsOf(_, _, _)
GroupsOf(ts, i, classes) ==
    IF i > Len(ts) THEN <<>>
    ELSE (IF ts[i].class \in classes THEN <<termFormula(ts[i])>> ELSE <<>>)
         \o GroupsOf(ts, i + 1, classes)

HasParentheses(f) == \E i \in 1..Len(f) : f[i].kind \in {"open", "close"}
HasPools(f)       == \E i \in 1..Len(f) : f[i].kind \in {"poolOpen", "poolClose"}

\* C22: on a formula balanced in its parentheses the constructor's splitting
\* closes one group per top-level parenthesised span, left to right, and
\* each group holds its span with the brackets nested in it in full; without
\* pools such a formula never raises the unbalanced-group error.  The same
\* holds for the pools of a formula without parentheses.
C22_OneGroupPerTopLevelSpan ==
    [][ Construct =>
          /\ (Balanced(_formula, "(") /\ pc' = "idle")
                => GroupsOf(terms', 1, {"ParentheticalTerm", "MathTerm"}) = TopSpans(_formula, 1, "(")
          /\ (Balanced(_formula, "(") /\ ~HasPools(_formula)) => pc' = "idle"
          /\ (Balanced(_formula, "{") /\ ~HasParentheses(_formula))
                => /\ pc' = "idle"
                   /\ GroupsOf(terms', 1, {"PoolTerm"}) = TopSpans(_formula, 1, "{") ]_vars

\* C22 witness: "((2)+2)(2)" was split into the two groups "((2)+2)" and
\* "(2)", the first with the nested parentheses in it.
C22_Witness ==
    /\ pc = "idle" /\ ~_evaluated
    /\ Len(terms) = 2
    /\ terms[1] = ParentheticalTerm(<<FOpen(""), FNum(2), FClose, FOp("+"), FNum(2)>>)
    /\ terms[2] = ParentheticalTerm(<<FNum(2)>>)

\* "(2+1)D6"
ParentheticalCount == <<FOpen(""), FNum(2), FOp("+"), FNum(1), FClose, FDice(0, Faces, <<>>)>>

\* C23: the Roll of "(2+1)D6" is constructed with the parenthetical term and
\* the fragment "D6" left as a string, no die imputed; its evaluation never
\* throws, and once the terms are simplified the term list is one dice group
\* of 3 dice with 6 faces, which the evaluation rolls.
C23_ParentheticalDiceCount ==
    _formula = ParentheticalCount
        => /\ pc \notin {"failed", "threw"}
           /\ (pc = "idle" /\ ~_evaluated)
                 => terms = <<ParentheticalTerm(<<FNum(2), FOp("+"), FNum(1)>>),
                              StringTerm(<<FDice(0, Faces, <<>>)>>)>>
           /\ pc \in {"step3", "returned"}
                 => /\ Len(terms) = 1
                    /\ isDie(terms[1])
                    /\ terms[1].number = 3
                    /\ terms[1].faces = Faces
           /\ pc = "returned"
                 => /\ Len(terms[1].results) = 3
                    /\ _total = Num(SumResults(terms[1].results, 1))

\* C23 witness: the evaluation of "(2+1)D6" has returned with three dice
\* rolled in one group.
C23_Witness ==
    /\ _formula = ParentheticalCount
    /\ pc = "returned"
    /\ Len(terms) = 1 /\ isDie(terms[1]) /\ Len(terms[1].results) = 3
    /\ Len(generated) = 1

\* "@qualites.costaud D6" and "4 D6"
ReferenceAndDice == <<FRef("qualites.costaud"), FBlank, FDice(0, Faces, <<>>)>>
ReplacedAndDice  == <<FNum(4), FBlank, FDice(0, Faces, <<>>)>>

\* C24 (as claimed): the Roll constructed from "@qualites.costaud D6" with
\* the data {qualites: {costaud: 4}} has the formula "4 D6" parsed as one
\* dice group of 4 dice with 6 faces.
C24_ReferenceBlankDice ==
    [][ (Construct /\ _formula = ReferenceAndDice)
          => /\ pc' = "idle"
             /\ replaceReferences(_formula, RollData) = ReplacedAndDice
             /\ terms' = <<Die(4, Faces, <<>>)>> ]_vars

\* Term i of ts has a neighbour that is a parenthetical term, a math call
\* or a pool.
NextToGroup(ts, i) ==
    \E j \in {i - 1, i + 1} \cap (1..Len(ts)) :
        ts[j].class \in {"ParentheticalTerm", "MathTerm", "PoolTerm"}

\* The string s is a dice expression with its number of dice written.
NumberedDice(s) == \E p \in DicePositions(s) : diceOf(s, p).number > 0

\* C26 (as claimed): in the term list the constructor's parse returns, a
\* dice expression next to a parenthetical term, a math call or a pool has
\* stayed a string, a dice expression elsewhere has become a dice term,
\* and digits have become a numeric term wherever they stand.  (The
\* classification keeps the places of the terms and leaves the groups as
\* they are, so the neighbours of the result are those of the pass.)
C26_DiceNextToGroupStaysString ==
    [][ (Construct /\ pc' = "idle")
          => \A i \in 1..Len(terms') :
                /\ isDie(terms'[i]) => ~NextToGroup(terms', i)
                /\ (isString(terms'[i]) /\ NumberedDice(terms'[i].term)) => NextToGroup(terms', i)
                /\ isString(terms'[i]) => ~matchNumeric(terms'[i].term) ]_vars

\* C27 (as claimed): the splitting of the constructor raises the
\* unbalanced-group error for every formula that is not balanced in its
\* parentheses, be it an opening one that is never closed or a closing one
\* with no opening one in front of it; likewise for the pools of a formula
\* without parentheses.
C27_UnbalancedEitherDirection ==
    [][ Construct =>
          /\ ~Balanced(_formula, "(") => pc' = "failed"
          /\ (~HasParentheses(_formula) /\ ~Balanced(_formula, "{")) => pc' = "failed" ]_vars

(***************************************************************************)
(* Claims about clone and reroll, checked under SpecClone.                 *)
(***************************************************************************)
\* C25: clone() returns a new Roll of the same formula that is not evaluated
\* and has no total; reroll(), when its evaluation returns, returns such a
\* Roll evaluated, with a numeric total; neither call changes the evaluated
\* flag, the total, the terms or the dice of the Roll it is called on.
C25_CloneLeavesOriginal ==
    [][ (copy'.calls = copy.calls + 1)
          => /\ UNCHANGED <<_evaluated, _total, terms, _dice, _formula>>
             /\ dice(terms', _dice') = dice(terms, _dice)
             /\ ~copy'.threw => copy'._formula = _formula
             /\ copy'.by = "clone"
                   => /\ ~copy'.threw
                      /\ ~copy'._evaluated
                      /\ copy'._total = Undefined
                      /\ copy'._dice = <<>>
                      /\ \A i \in 1..Len(copy'.terms) : ~copy'.terms[i]._evaluated
             /\ (copy'.by = "reroll" /\ ~copy'.threw)
                   => /\ copy'._evaluated
                      /\ isNumeric(copy'._total)
                      /\ \A i \in 1..Len(copy'.terms) : copy'.terms[i]._evaluated ]_vars

\* C25 witness: an evaluated Roll with rolled dice has been rerolled; the
\* reroll rolled its own dice and the Roll kept its total.
C25_Witness ==
    /\ pc = "returned" /\ _evaluated
    /\ copy.by = "reroll" /\ ~copy.threw
    /\ copy.rolled # <<>>
    /\ copy._total # _total

(***************************************************************************)
(* Claims about replaceFormulaData, checked under SpecReplace.             *)
(***************************************************************************)
\* Character k of formula f begins a reference: an "@" with a character of
\* a path behind it.
RefStart(f, k) == f[k] = "@" /\ k < Len(f) /\ f[k + 1] \in PathChars

\* The last character of the reference that begins at k.
RefEnd(f, k) ==
    CHOOSE j \in (k + 1)..Len(f) :
        /\ \A i \in (k + 1)..j : f[i] \in PathChars
        /\ j < Len(f) => f[j + 1] \notin PathChars

\* What stands for the reference "@path" according to the claim.
Substitute(path, data, missing) ==
    IF getProperty(data, path).type \notin {"null", "undefined"}
    THEN trim(String(getProperty(data, path)))
    ELSE IF missing.type # "undefined" THEN String(missing)
    ELSE <<"@">> \o path

\* The result for formula f according to the claim, given the result rest
\* for what follows the first reference of f: f itself when it holds no
\* reference, else the text in front of the first reference, what stands
\* for the reference, and rest.
FirstReplaced(f, k, data, missing) ==
    SubSeq(f, 1, k - 1) \o Substitute(SubSeq(f, k + 1, RefEnd(f, k)), data, missing)
        \o replaceFormulaData(SubSeq(f, RefEnd(f, k) + 1, Len(f)), data, missing)

DiceResults == [i \in DiceTerms(terms) |-> terms[i].results]

\* C1: a call of evaluate (asynchronous, or synchronous / minimize / maximize)
\* on a Roll whose evaluated flag is already true throws the "already
\* evaluated" error and leaves the terms (with the dice results), the inner
\* dice, the total, the flag and the position of a suspended first
\* evaluation unchanged; so no second evaluation ever generates dice.
C1_EvaluateTwiceThrows ==
    [][ (_evaluated /\ (Evaluate \/ \E mode \in EvaluateModes : EvaluateSync(mode)))
        => (/\ lastError' = "AlreadyEvaluated"
            /\ UNCHANGED <<terms, _dice, _total, _evaluated, pc>>) ]_vars

\* C1 witness: the second evaluate was refused while the first asynchronous
\* evaluation is suspended at an await with its dice already rolled.
C1_Witness ==
    /\ lastError = "AlreadyEvaluated"
    /\ pc = "step3"
    /\ \E i \in DiceTerms(terms) : Len(terms[i].results) > 0

\* C2 (as claimed): in every reachable state, evaluated = true implies that
\* total is a finite number.
C2_EvaluatedImpliesFiniteTotal == _evaluated => IsFinite(_total)

\* C19 (as claimed): for every evaluated Roll, total equals the arithmetic
\* value of its term list with each dice term replaced by its rolled total,
\* "*" and "/" binding tighter than "+" and "-" and equal precedence
\* associating left to right.  Only Rolls whose evaluate has returned
\* without an error are held to the claim.
C19_TotalIsArithmeticValue ==
    (_evaluated /\ pc = "returned") => _total = evalExpression(terms)

\* C3 (as claimed): once the evaluated flag is true, no operation changes
\* the total or the dice results.  The steps of the evaluation that set the
\* flag are not held against the claim: only steps taken while no
\* evaluation is suspended are constrained.
C3_ImmutableOnceEvaluated ==
    [][ (_evaluated /\ pc # "step3")
        => (_total' = _total /\ DiceResults' = DiceResults) ]_vars

(***************************************************************************)
(* The check: the "Roll" button callback of the ask dialog, in RollDCMacro *)
(* (dc.mjs) and on the actor sheet (actor-sheet.mjs).                      *)
(***************************************************************************)
Modes        == {"", "avantage", "desavantage"}    \* the dialog's .choice values
Difficulties == 1..MaxDifficulty

\* dc.mjs: the dice formula chosen by the switch on the dialog's choice
\* ("3D6", "4D6", "2D6"), as its number of dice.
macroRoll(result) ==
    CASE result = "avantage"    -> 4
      [] result = "desavantage" -> 2
      [] OTHER                  -> 3

\* dc.mjs: numDice as the same switch sets it.
macroNumDice_AvantageThree(result) ==
    CASE result = "desavantage" -> 2
      [] OTHER                  -> 3

macroNumDice(result) ==
    CASE result = "avantage"    -> 4
      [] result = "desavantage" -> 2
      [] OTHER                  -> 3

\* actor-sheet.mjs: the same switch in the label.roll callback.
sheetRoll(result) ==
    CASE result = "avantage"    -> 4
      [] result = "desavantage" -> 2
      [] OTHER                  -> 3

sheetNumDice(result) ==
    CASE result = "avantage"    -> 4
      [] result = "desavantage" -> 2
      [] OTHER                  -> 3

\* new Roll(`${roll}cs<=${value}`): the terms of "<n>D6cs<=<value>".
checkTerms(n, value) == parsedTerms(<<FDice(n, Faces, cs(value))>>)

\* dc.mjs: the breakdown list built from r.dice[0].results: one entry per
\* result, with its index, its face value and the success class when the
\* result's success flag is truthy.
breakdown_AllSuccess(results) ==
    [i \in 1..Len(results) |->
        [num |-> i - 1, result |-> results[i].result, success |-> TRUE]]

breakdown(results) ==
    [i \in 1..Len(results) |->
        [num |-> i - 1, result |-> results[i].result,
         success |-> results[i].success = "true"]]

\* dc.mjs: the gate of the reroll dialog, r._total < numDice.
offersRelance_OrEqual(total, numDice) == total.k = "number" /\ total.v <= numDice
offersRelance(total, numDice) == total.k = "number" /\ total.v < numDice

CheckFrame == UNCHANGED <<rollVars, relanceVars, replaceVars, cloneVars>>

\* RollDCMacro callback up to the chat message: the mode is read, the Roll
\* is built and evaluated, the breakdown and the message data are prepared.
MacroCallback(result, value) ==
    /\ check.pc = "idle"
    /\ \E vs \in Outcomes(checkTerms(macroRoll(result), value)[1], "random") :
         LET ts == [i \in 1..1 |-> rollDie(checkTerms(macroRoll(result), value)[1], vs)]
         IN  check' = [pc |-> "rolled", path |-> "macro", result |-> result,
                       value |-> value, numDice |-> macroNumDice(result),
                       terms |-> ts, _total |-> _evaluateTotal(ts).value,
                       dices |-> breakdown(ts[1].results),
                       msgTotal |-> _evaluateTotal(ts).value, relance |-> FALSE]
    /\ CheckFrame

\* RollDCMacro callback after "await ChatMessage.create": the reroll dialog
\* is constructed when the gate lets it.
MacroPost ==
    /\ check.pc = "rolled"
    /\ check.path = "macro"
    /\ check' = [check EXCEPT !.pc = "posted",
                              !.relance = offersRelance(check._total, check.numDice)]
    /\ CheckFrame

\* Actor sheet callback: the mode is read and doRoll(roll) rolls the
\* formula against the difficulty.
SheetCallback(result, value) ==
    /\ check.pc = "idle"
    /\ \E vs \in Outcomes(checkTerms(sheetRoll(result), value)[1], "random") :
         LET ts == [i \in 1..1 |-> rollDie(checkTerms(sheetRoll(result), value)[1], vs)]
         IN  check' = [pc |-> "rolled", path |-> "sheet", result |-> result,
                       value |-> value, numDice |-> sheetNumDice(result),
                       terms |-> ts, _total |-> _evaluateTotal(ts).value,
                       dices |-> <<>>, msgTotal |-> Undefined, relance |-> FALSE]
    /\ CheckFrame

\* Actor sheet callback: sendMsg posts the outcome.
SheetSendMsg ==
    /\ check.pc = "rolled"
    /\ check.path = "sheet"
    /\ check' = [check EXCEPT !.pc = "posted", !.msgTotal = check._total]
    /\ CheckFrame

NextCheck ==
    \/ \E result \in Modes, value \in Difficulties : MacroCallback(result, value)
    \/ MacroPost
    \/ \E result \in Modes, value \in Difficulties : SheetCallback(result, value)
    \/ SheetSendMsg

InitSpecCheck == CheckIdle /\ RollIdle /\ RelanceIdle /\ ReplaceIdle /\ CloneIdle

SpecCheck == InitSpecCheck /\ [][NextCheck]_vars

(***************************************************************************)
(* Claims about the check, under SpecCheck.                                *)
(***************************************************************************)
\* The results of the dice group the check rolled.
CheckResults == check.terms[1].results

\* The number of rolled dice whose face value is at most the difficulty.
CheckSuccesses ==
    Cardinality({i \in 1..Len(CheckResults) : CheckResults[i].result <= check.value})

\* C8: the reroll dialog is opened only for a check whose success total is
\* strictly less than its baseline dice count; a check whose total equals
\* its dice count is never offered a reroll.
C8_RelanceOnlyBelowDiceCount ==
    (check.pc = "posted" /\ check.path = "macro") =>
        /\ check.relance => (check._total.v < check.numDice /\ check._total.v < Len(CheckResults))
        /\ check._total.v = check.numDice => ~check.relance

\* C8 witness: a posted check one success short of its dice count, with the
\* dialog opened.
C8_Witness ==
    /\ check.pc = "posted"
    /\ check.path = "macro"
    /\ check.relance
    /\ check._total.v = check.numDice - 1

\* C9: for every check the number of dice rolled equals numDice, and both
\* are 3 for the standard mode, 4 with advantage and 2 with disadvantage.
C9_DiceCountByMode ==
    check.pc # "idle" =>
        /\ Len(CheckResults) = check.numDice
        /\ check.numDice = (CASE check.result = "avantage"    -> 4
                              [] check.result = "desavantage" -> 2
                              [] OTHER                        -> 3)

\* C9 witness: a check made with advantage has rolled four dice.
C9_Witness ==
    /\ check.pc = "posted"
    /\ check.path = "macro"
    /\ check.result = "avantage"
    /\ Len(CheckResults) = 4

\* C10: the total reported in the chat message equals the number of dice
\* whose face value is <= T, and exactly those dice carry the success mark
\* in the breakdown list, in the order rolled.
C10_TotalCountsSuccesses ==
    (check.pc = "posted" /\ check.path = "macro") =>
        /\ check.msgTotal = Num(CheckSuccesses)
        /\ Len(check.dices) = Len(CheckResults)
        /\ \A i \in 1..Len(CheckResults) :
              /\ check.dices[i].result = CheckResults[i].result
              /\ check.dices[i].num = i - 1
              /\ check.dices[i].success <=> (CheckResults[i].result <= check.value)

\* C10 witness: a posted check with a die at the difficulty (a success), a
\* die above it (a failure) and a total of at least one.
C10_Witness ==
    /\ check.pc = "posted"
    /\ check.path = "macro"
    /\ \E i, j \in 1..Len(CheckResults) :
          /\ CheckResults[i].result = check.value /\ check.dices[i].success
          /\ CheckResults[j].result > check.value /\ ~check.dices[j].success
    /\ check.msgTotal.v >= 1

(***************************************************************************)
(* DCRelance: the reroll dialog.  Three implementations exist:             *)
(*   "legacy"   item-sheet.mjs, first DCRelance: the dice are a list of    *)
(*              rendered entries and the result a number of the dialog;    *)
(*   "flags"    item-sheet.mjs, second DCRelance: the outcome lives in the *)
(*              "roll" flag of the chat message;                           *)
(*   "editRoll" relance-sheet.mjs: the outcome is the evaluated DCRoll,    *)
(*              amended through editRoll.                                  *)
(* In all three the outcome is held in flags: results is the stored        *)
(* success count (this.object.result, flags.results, roll._total) and      *)
(* dices the dice list (this.object.dices, flags.dices, the results of     *)
(* roll.dice[0]).  selected = 0 stands for "no die selected" (null in the  *)
(* legacy dialog, undefined in the other two); dice are indexed from 1.    *)
(***************************************************************************)
Impls    == {"legacy", "flags", "editRoll"}
Handlers == {"first", "second"}     \* two clicks on the relance button

RelanceDifficulty == 5

RelanceDifficulties == 1..RelanceDifficulty

IdleHandler ==
    [pc |-> "idle", selected |-> 0, result |-> 0, total |-> 0, dices |-> <<>>]

\* The successes a dice list shows: active dice marked success.
Successes(dices) ==
    Cardinality({i \in 1..Len(dices) : dices[i].active /\ dices[i].success = "true"})

\* The active dice of a list whose face value is at most T.
ActiveAtMost(dices, T) ==
    Cardinality({i \in 1..Len(dices) : dices[i].active /\ dices[i].result <= T})

\* A dialog on a Presented outcome: RelanceDice dice were rolled against the
\* difficulty, fewer than all of them succeeded (the dialog is opened only
\* then), the chat message exists and no die is selected.
InitRelance ==
    /\ impl \in Impls
    /\ \E T \in RelanceDifficulties, vs \in [1..RelanceDice -> 1..Faces] :
         LET ds == [i \in 1..RelanceDice |-> DieResult(vs[i], cs(T))]
         IN  /\ offersRelance(Num(Successes(ds)), RelanceDice)
             /\ flags = [results |-> Successes(ds), dices |-> ds]
             /\ object = [value |-> T, selected |-> 0, result |-> Successes(ds)]
    /\ message = [exists |-> TRUE, deleting |-> FALSE]
    /\ handler = [h \in Handlers |-> IdleHandler]
    /\ created = <<>>

RelanceFrame == UNCHANGED <<rollVars, checkVars, replaceVars, cloneVars>>

\* li.roll click: the clicked entry becomes the selected die.
Select(i) ==
    /\ i \in 1..RelanceDice
    /\ object.selected # i
    /\ object' = [object EXCEPT !.selected = i]
    /\ UNCHANGED <<impl, flags, message, handler, created>>
    /\ RelanceFrame

\* The host applies a requested deletion of the chat message; the handlers
\* never await it.
DeleteTakesEffect ==
    /\ message.exists /\ message.deleting
    /\ message' = [exists |-> FALSE, deleting |-> FALSE]
    /\ UNCHANGED <<impl, object, flags, handler, created>>
    /\ RelanceFrame

\* The guard of the relance handler: does it return at once?
\*   legacy:   selected === null
\*   flags:    selected === undefined || !getMsg
\*   editRoll: selected === null, which undefined never is
relanceGuard(i, selected, msgExists) ==
    CASE i = "legacy" -> selected = 0
      [] i = "flags"  -> selected = 0 \/ ~msgExists
      [] OTHER        -> FALSE

\* button.relance click, up to the first await.  Past the guard the legacy
\* and editRoll handlers call game.messages.get(msg).delete(), a TypeError
\* when the message is gone; the flags handler only looks the message up.
Click(h) ==
    /\ handler[h].pc = "idle"
    /\ h = "second" => handler["first"].pc # "idle"
    /\ IF relanceGuard(impl, object.selected, message.exists)
       THEN /\ handler' = [handler EXCEPT ![h].pc = "returned"]
            /\ message' = message
       ELSE IF impl # "flags" /\ ~message.exists
       THEN /\ handler' = [handler EXCEPT ![h].pc = "threw"]
            /\ message' = message
       ELSE /\ handler' = [handler EXCEPT ![h].pc = "awaitEvaluate",
                                          ![h].selected = object.selected,
                                          ![h].result = object.result]
            /\ message' = IF impl = "flags" THEN message
                          ELSE [message EXCEPT !.deleting = TRUE]
    /\ UNCHANGED <<impl, object, flags, created>>
    /\ RelanceFrame

\* flags handler: the fresh die r.total against the difficulty, on the flag.
relanceFlags_NoSubtract(fl, selected, rtotal, difficulte) ==
    [results |-> fl.results + (IF rtotal <= difficulte THEN 1 ELSE 0),
     dices   |-> Append([fl.dices EXCEPT ![selected].active = FALSE],
                        [result |-> rtotal, active |-> TRUE, success |-> "undefined"])]

relanceFlags_KeepActive(fl, selected, rtotal, difficulte) ==
    [results |-> fl.results + (IF rtotal <= difficulte THEN 1 ELSE 0)
                            - (IF fl.dices[selected].result <= difficulte THEN 1 ELSE 0),
     dices   |-> Append(fl.dices,
                        [result |-> rtotal, active |-> TRUE, success |-> "undefined"])]

relanceFlags(fl, selected, rtotal, difficulte) ==
    [results |-> fl.results + (IF rtotal <= difficulte THEN 1 ELSE 0)
                            - (IF fl.dices[selected].result <= difficulte THEN 1 ELSE 0),
     dices   |-> Append([fl.dices EXCEPT ![selected].active = FALSE],
                        [result |-> rtotal, active |-> TRUE, success |-> "undefined"])]

\* legacy handler: the selected entry is spliced out of the dice list, the
\* new die is pushed, and the handler's local result grows by r._total.
RemoveAt(seq, i) == SubSeq(seq, 1, i - 1) \o SubSeq(seq, i + 1, Len(seq))

relanceLegacy(dices, result, selected, r) ==
    [dices  |-> Append(RemoveAt(dices, selected), r.results[1]),
     result |-> result + dieTotal(r).v]

\* editRoll handler: this.object.roll.editRoll(selected, r.dice[0]) on the
\* evaluated "<n>D6cs<=T" Roll of the outcome; the TypeError editRoll raises
\* without a selected die is lost with its un-awaited promise.
RollOf(fl, T) ==
    [terms  |-> <<[Die(Len(fl.dices), Faces, cs(T)) EXCEPT
                      !.results = fl.dices, !._evaluated = TRUE]>>,
     _total |-> Num(fl.results)]

relanceEdit(fl, selected, r, T) ==
    LET e == editRoll(RollOf(fl, T).terms, RollOf(fl, T)._total, selected, r)
    IN  [results |-> e._total.v, dices |-> e.terms[1].results]

\* The continuation of the handler once the fresh die is rolled, up to its
\* next await: the outcome is amended and the replacement message prepared.
\* The flags handler requests the deletion of the message only here, a
\* TypeError when the message is gone by then.
Resume(h) ==
    /\ handler[h].pc = "awaitEvaluate"
    /\ \E v \in 1..Faces :
         LET sel == handler[h].selected
             r   == RerollDie(v, object.value)
         IN  CASE impl = "legacy" ->
                    LET n == relanceLegacy(flags.dices, handler[h].result, sel, r)
                    IN  /\ flags' = [flags EXCEPT !.dices = n.dices]
                        /\ handler' = [handler EXCEPT ![h].pc = "awaitCreate",
                                                      ![h].total = n.result,
                                                      ![h].dices = n.dices]
                        /\ message' = message
               [] impl = "flags" ->
                    LET n == relanceFlags(flags, sel, v, object.value)
                    IN  /\ flags' = n
                        /\ handler' = [handler EXCEPT
                                          ![h].pc = IF message.exists THEN "awaitCreate" ELSE "threw",
                                          ![h].total = n.results]
                        /\ message' = IF message.exists
                                      THEN [message EXCEPT !.deleting = TRUE] ELSE message
               [] OTHER ->
                    LET n == relanceEdit(flags, sel, r, object.value)
                    IN  /\ flags' = n
                        /\ handler' = [handler EXCEPT ![h].pc = "awaitCreate",
                                                      ![h].total = n.results,
                                                      ![h].dices = n.dices]
                        /\ message' = message
    /\ UNCHANGED <<impl, object, created>>
    /\ RelanceFrame

\* The end of the handler: ChatMessage.create posts the replacement message.
\* The flags handler passes the flag object itself, so the message carries
\* the dice as they are now.
Post(h) ==
    /\ handler[h].pc = "awaitCreate"
    /\ created' = Append(created,
                         [total |-> handler[h].total,
                          dices |-> IF impl = "flags" THEN flags.dices ELSE handler[h].dices])
    /\ handler' = [handler EXCEPT ![h].pc = "done"]
    /\ UNCHANGED <<impl, object, flags, message>>
    /\ RelanceFrame

NextRelance ==
    \/ \E i \in 1..RelanceDice : Select(i)
    \/ \E h \in Handlers : Click(h)
    \/ \E h \in Handlers : Resume(h)
    \/ \E h \in Handlers : Post(h)
    \/ DeleteTakesEffect

InitSpecRelance == InitRelance /\ RollIdle /\ CheckIdle /\ ReplaceIdle /\ CloneIdle

SpecRelance == InitSpecRelance /\ [][NextRelance]_vars

\* The same dialog when the caller serializes the requests: the relance
\* button is clicked again only after the previous handler has finished.
Finished(h) == handler[h].pc \in {"done", "returned", "threw"}

InFlight(h) == handler[h].pc \in {"awaitEvaluate", "awaitCreate"}

SelectSerialized(i) ==
    /\ \A h \in Handlers : ~InFlight(h)
    /\ Select(i)

ClickSerialized(h) ==
    /\ h = "second" => Finished("first")
    /\ Click(h)

NextRelanceSerialized ==
    \/ \E i \in 1..RelanceDice : SelectSerialized(i)
    \/ \E h \in Handlers : ClickSerialized(h)
    \/ \E h \in Handlers : Resume(h)
    \/ \E h \in Handlers : Post(h)
    \/ DeleteTakesEffect

SpecRelanceSerialized == InitSpecRelance /\ [][NextRelanceSerialized]_vars

\* The same dialog when the relance button is clicked a second time while
\* the handler of the first click is suspended at one of its awaits.
ClickInterleaved(h) ==
    /\ h = "second" => InFlight("first")
    /\ Click(h)

NextRelanceInterleaved ==
    \/ \E i \in 1..RelanceDice : Select(i)
    \/ \E h \in Handlers : ClickInterleaved(h)
    \/ \E h \in Handlers : Resume(h)
    \/ \E h \in Handlers : Post(h)
    \/ DeleteTakesEffect

SpecRelanceInterleaved == InitSpecRelance /\ [][NextRelanceInterleaved]_vars

\* The flag-based dialog of item-sheet.mjs alone, its requests serialized.
InitSpecRelanceFlags == InitSpecRelance /\ impl = "flags"

SpecRelanceFlags == InitSpecRelanceFlags /\ [][NextRelanceSerialized]_vars

(***************************************************************************)
(* DCRelance: properties.                                                  *)
(***************************************************************************)
\* Presented: no reroll has been applied to the outcome yet.
Presented == \A h \in Handlers : handler[h].pc \in {"idle", "returned", "awaitEvaluate"}

\* Amended: the first request applied a reroll and has finished.
Amended == handler["first"].pc = "done" /\ handler["first"].selected # 0

AtMost(face, T) == IF face <= T THEN 1 ELSE 0

ActiveCount(dices) == Cardinality({i \in 1..Len(dices) : dices[i].active})

\* C4: once one reroll has been applied and its request has finished, a
\* further reroll request on the same outcome changes neither the success
\* count nor the dice list.
C4_SecondRerollIsNoOp ==
    [][ Amended => flags' = flags ]_vars

\* C5: a reroll of die i at difficulty T on a Presented outcome leaves the
\* success count at the old count, minus 1 if die i showed at most T, plus 1
\* if the fresh die shows at most T.
C5_RerollSuccessCount ==
    [][ \A h \in Handlers :
          (impl = "flags" /\ Presented /\ Resume(h)) =>
             LET old   == flags.dices[handler[h].selected]
                 fresh == flags'.dices[Len(flags'.dices)]
             IN  flags'.results = flags.results - AtMost(old.result, object.value)
                                                + AtMost(fresh.result, object.value) ]_vars

\* A reroll that traded a success for a failure has been applied.
C5_Witness ==
    /\ impl = "flags"
    /\ handler["first"].pc = "done"
    /\ handler["second"].pc = "idle"
    /\ flags.dices[handler["first"].selected].result <= object.value
    /\ flags.dices[Len(flags.dices)].result > object.value
    /\ flags.results = ActiveAtMost(flags.dices, object.value)

\* C6: the total a reroll of the editRoll or the legacy dialog reports is the
\* number of successful dice among the dice current after the replacement.
C6_RerollTotalCountsSuccesses ==
    impl \in {"editRoll", "legacy"} =>
       \A m \in 1..Len(created) : created[m].total = Successes(created[m].dices)

\* C7: the reroll of a Presented outcome marks the selected die, and only
\* it, inactive, appends one active die and leaves every other die as it
\* was; the number of active dice stays the same.
C7_RerollFrame ==
    [][ \A h \in Handlers :
          (impl = "flags" /\ Presented /\ Resume(h)) =>
             LET i == handler[h].selected
                 n == Len(flags.dices)
             IN  /\ Len(flags'.dices) = n + 1
                 /\ flags'.dices[n + 1].active
                 /\ ~flags'.dices[i].active
                 /\ flags'.dices[i].result = flags.dices[i].result
                 /\ \A j \in (1..n) \ {i} : flags'.dices[j] = flags.dices[j]
                 /\ ActiveCount(flags'.dices) = ActiveCount(flags.dices) ]_vars

\* The first reroll has been applied: one die retired, one die appended.
C7_Witness ==
    /\ impl = "flags"
    /\ handler["first"].pc = "awaitCreate"
    /\ Len(flags.dices) = RelanceDice + 1
    /\ ~flags.dices[handler["first"].selected].active
    /\ ActiveCount(flags.dices) = RelanceDice

\* C28 (as claimed): a click on the relance button while no die is selected
\* returns at once in every implementation of the dialog: the deletion of
\* the chat message is not requested, no die is rolled, and the success
\* count and the dice list stay as they are.
C28_NoSelectionIsNoOp ==
    [][ \A h \in Handlers :
          (Click(h) /\ object.selected = 0)
             => /\ handler'[h].pc = "returned"
                /\ message' = message
                /\ flags' = flags ]_vars

\* C30 (as claimed): of two invocations of the relance handler that
\* interleave on the same outcome at most one amends the outcome and at
\* most one replacement message is created.  In the flag-based dialog every
\* amendment adds one entry to the dice list of the outcome, so that list
\* has grown by one entry at most.
C30_OneInterleavedReroll ==
    /\ impl = "flags" => Len(flags.dices) <= RelanceDice + 1
    /\ Len(created) <= 1

====
